---- MODULE Spec2Model ----
(***************************************************************************)
(* bgm.rs (bgmTTY): the request cache of AppState (src/src/state.rs), the  *)
(* Scroll container widget (src/src/widgets.rs), the UIState with its      *)
(* reduce (src/src/state.rs) and the main loop (src/src/bin.rs).           *)
(*                                                                         *)
(* Spec          the AppState cache: accessors, refresh_*, mutating        *)
(*               operations and the completions of the futures they spawn. *)
(* SpecScroll    the Scroll widget: set_bound, cap_bound, scroll_into_view *)
(*               over u16 arithmetic.                                      *)
(* SpecFocus     FocusState: set, set_limit, next, prev.                   *)
(* SpecTabs      the tab methods of UIState, called in any order.          *)
(* SpecLong      the main loop with the keys that enter and leave every    *)
(*               long command, and the mouse.                              *)
(* SpecProgress  the main loop with j, k, + and - on the Collection tab.   *)
(* SpecRating    the main loop with the rating editor of a Subject tab.    *)
(* SpecQuit      the main loop with :q and Tab.                            *)
(* SpecMove      the main loop with :tabe coll, :tabm n and Tab.           *)
(* SpecHelp      the main loop with keys with and without a binding.       *)
(* SpecClick     the main loop with presses, holds and releases.           *)
(* SpecPass      the main loop with the events that leave each signal      *)
(*               pending for the render pass.                              *)
(* SpecText      CJKText: height and draw of every short text.             *)
(* SpecView      the Scroll widget drawn and clicked: draw and intercept.  *)
(* SpecEditor    the listener thread, stdin_lock and the editor of         *)
(*               UIState::edit (src/src/bin.rs, src/src/state.rs).         *)
(* SpecEdit      the main loop with t and c on a Subject tab and every way *)
(*               the editor can end.                                       *)
(* SpecClose     the main loop with left and middle presses on the tab bar.*)
(* SpecFilter    the main loop with the filter toggles and the focus keys. *)
(* SpecBuffer    the main loop with the rating editor, every digit key and *)
(*               every stored rating.                                      *)
(* SpecJump      the main loop with j, k and G on a Subject tab.           *)
(* SpecStatus    the main loop with the status editor of a Subject tab.    *)
(***************************************************************************)
EXTENDS Integers, Sequences, FiniteSets, TLC

(***************************************************************************)
(* Bounds of the model.                                                    *)
(***************************************************************************)
\* futures spawned on the tokio runtime and not yet finished
MaxTasks == 2

\* subject ids the UI asks for (keys of subject)
Ids == {1, 2}
\* subject ids whose collection detail the UI asks for (keys of collection_detail)
DetailIds == {1}
\* (query, page) keys of search
SearchKeys == {<<"q", 0>>}
\* what the server may answer: versions of a subject, of the collection, of a detail
SubjectValues == {"s1", "s2"}
CollectionValues == {"c1"}
DetailValues == {"None", "Some"}
\* lists of subject ids a search may answer
SearchLists == {<<1>>, <<2, 1>>}

NoVal == "-"
NoKey == <<>>

(***************************************************************************)
(* InnerState<I, T> and FetchResult<T>.  A HashMap slot with no entry is   *)
(* Vacant.                                                                 *)
(***************************************************************************)
Vacant == [tag |-> "Vacant", val |-> NoVal]
Discarded == [tag |-> "Discarded", val |-> NoVal]
Fetching == [tag |-> "Fetching", val |-> NoVal]
Fetched(v) == [tag |-> "Fetched", val |-> v]

Deferred == [tag |-> "Deferred", val |-> NoVal]
Direct(v) == [tag |-> "Direct", val |-> v]

VARIABLES
    fetching_collection, \* AppState.fetching_collection
    collection,          \* AppStateInner.collection
    collection_detail,   \* AppStateInner.collection_detail
    subject,             \* AppStateInner.subject
    search,              \* AppStateInner.search
    rt,                  \* futures spawned on AppState.rt and not yet finished
    last                 \* the operation that ran last and what it returned and did

cache == <<fetching_collection, collection, collection_detail, subject, search>>

\* The futures AppState spawns, by the request they carry.
Task(op, key) == [op |-> op, key |-> key]
Tasks ==
    {Task("collection", NoKey), Task("progress", NoKey)}
        \cup {Task("collection_detail", id) : id \in DetailIds}
        \cup {Task("update_collection_detail", id) : id \in DetailIds}
        \cup {Task("subject", id) : id \in Ids}
        \cup {Task("search", k) : k \in SearchKeys}

RECURSIVE SumOver(_, _)
SumOver(f, S) ==
    IF S = {} THEN 0
    ELSE LET x == CHOOSE y \in S : TRUE IN f[x] + SumOver(f, S \ {x})

InFlight == SumOver(rt, Tasks)

\* rt.spawn(fut)
Spawn(t) == [rt EXCEPT ![t] = @ + 1]
\* the future ran to its end
Finish(t) == [rt EXCEPT ![t] = @ - 1]

\* What an operation did: its name and key, its return value, whether it spawned
\* a future, the message it pushed onto AppStateInner.messages (the log is only
\* appended to, and last_message() shows its newest entry) and whether it sent
\* on AppStateInner.notifier.
Did(op, key, ret, spawned, pushed, notified) ==
    [op |-> op, key |-> key, ret |-> ret, spawned |-> spawned,
     pushed |-> pushed, notified |-> notified]

NoMsg == "none"

NoRet == [tag |-> "None", val |-> NoVal]

(***************************************************************************)
(* AppState::create                                                        *)
(***************************************************************************)
InitCache ==
    /\ fetching_collection = FALSE
    /\ collection = Discarded
    /\ collection_detail = [id \in DetailIds |-> Vacant]
    /\ subject = [id \in Ids |-> Vacant]
    /\ search = [k \in SearchKeys |-> Vacant]
    /\ rt = [t \in Tasks |-> 0]
    /\ last = Did("create", NoKey, NoRet, FALSE, "Loading bgmTTY...", FALSE)

(***************************************************************************)
(* AppState::fetch_collection.  The entry is looked at only once           *)
(* fetching_collection is set; the first call spawns without writing       *)
(* Fetching.                                                               *)
(***************************************************************************)
fetch_collection ==
    IF fetching_collection /\ collection.tag = "Fetched" THEN
        /\ last' = Did("fetch_collection", NoKey, Direct(collection.val), FALSE, NoMsg, FALSE)
        /\ UNCHANGED <<cache, rt>>
    ELSE IF fetching_collection /\ collection.tag = "Fetching" THEN
        /\ last' = Did("fetch_collection", NoKey, Deferred, FALSE, NoMsg, FALSE)
        /\ UNCHANGED <<cache, rt>>
    ELSE
        /\ InFlight < MaxTasks
        /\ collection' = IF fetching_collection THEN Fetching ELSE collection
        /\ fetching_collection' = TRUE
        /\ rt' = Spawn(Task("collection", NoKey))
        /\ last' = Did("fetch_collection", NoKey, Deferred, TRUE, "collection: refreshing", TRUE)
        /\ UNCHANGED <<collection_detail, subject, search>>

\* the map closure of fetch_collection's future
collection_done(resp) ==
    /\ rt[Task("collection", NoKey)] > 0
    /\ rt' = Finish(Task("collection", NoKey))
    /\ collection' = Fetched(resp)
    /\ last' = Did("collection_done", NoKey, NoRet, FALSE, "collection: loaded", TRUE)
    /\ UNCHANGED <<fetching_collection, collection_detail, subject, search>>

(***************************************************************************)
(* AppState::update_progress: the request is spawned at once, the          *)
(* collection entry is discarded by the map closure.                       *)
(***************************************************************************)
update_progress ==
    /\ InFlight < MaxTasks
    /\ rt' = Spawn(Task("progress", NoKey))
    /\ last' = Did("update_progress", NoKey, NoRet, TRUE, "progress: updating", TRUE)
    /\ UNCHANGED cache

\* the map closure of update_progress with the discard lost
progress_done_NoDiscard ==
    /\ rt[Task("progress", NoKey)] > 0
    /\ rt' = Finish(Task("progress", NoKey))
    /\ last' = Did("progress_done", NoKey, NoRet, FALSE, NoMsg, TRUE)
    /\ UNCHANGED cache

progress_done ==
    /\ rt[Task("progress", NoKey)] > 0
    /\ rt' = Finish(Task("progress", NoKey))
    /\ collection' = Discarded
    /\ last' = Did("progress_done", NoKey, NoRet, FALSE, NoMsg, TRUE)
    /\ UNCHANGED <<fetching_collection, collection_detail, subject, search>>

(***************************************************************************)
(* AppState::fetch_collection_detail                                       *)
(***************************************************************************)
fetch_collection_detail(id) ==
    IF collection_detail[id].tag = "Fetched" THEN
        /\ last' = Did("fetch_collection_detail", id, Direct(collection_detail[id].val),
                       FALSE, NoMsg, FALSE)
        /\ UNCHANGED <<cache, rt>>
    ELSE IF collection_detail[id].tag = "Fetching" THEN
        /\ last' = Did("fetch_collection_detail", id, Deferred, FALSE, NoMsg, FALSE)
        /\ UNCHANGED <<cache, rt>>
    ELSE
        /\ InFlight < MaxTasks
        /\ collection_detail' = [collection_detail EXCEPT ![id] = Fetching]
        /\ rt' = Spawn(Task("collection_detail", id))
        /\ last' = Did("fetch_collection_detail", id, Deferred, TRUE, "collection_detail: fetching", TRUE)
        /\ UNCHANGED <<fetching_collection, collection, subject, search>>

collection_detail_done(id, resp) ==
    /\ rt[Task("collection_detail", id)] > 0
    /\ rt' = Finish(Task("collection_detail", id))
    /\ collection_detail' = [collection_detail EXCEPT ![id] = Fetched(resp)]
    /\ last' = Did("collection_detail_done", id, NoRet, FALSE, "collection_detail: loaded", TRUE)
    /\ UNCHANGED <<fetching_collection, collection, subject, search>>

(***************************************************************************)
(* AppState::update_collection_detail: no entry is touched by the call;    *)
(* the map closure stores the server's answer as Fetched.                  *)
(***************************************************************************)
update_collection_detail(id) ==
    /\ InFlight < MaxTasks
    /\ rt' = Spawn(Task("update_collection_detail", id))
    /\ last' = Did("update_collection_detail", id, NoRet, TRUE, "collection_detail: updating", TRUE)
    /\ UNCHANGED cache

update_collection_detail_done(id) ==
    /\ rt[Task("update_collection_detail", id)] > 0
    /\ rt' = Finish(Task("update_collection_detail", id))
    /\ collection_detail' = [collection_detail EXCEPT ![id] = Fetched("Some")]
    /\ last' = Did("update_collection_detail_done", id, NoRet, FALSE, "collection_detail: updated", TRUE)
    /\ UNCHANGED <<fetching_collection, collection, subject, search>>

(***************************************************************************)
(* AppState::fetch_subject                                                 *)
(***************************************************************************)
\* fetch_subject with the Fetched arm lost: a fetched entry is fetched again
fetch_subject_NoFetchedArm(id) ==
    IF subject[id].tag = "Fetching" THEN
        /\ last' = Did("fetch_subject", id, Deferred, FALSE, NoMsg, FALSE)
        /\ UNCHANGED <<cache, rt>>
    ELSE
        /\ InFlight < MaxTasks
        /\ subject' = [subject EXCEPT ![id] = Fetching]
        /\ rt' = Spawn(Task("subject", id))
        /\ last' = Did("fetch_subject", id, Deferred, TRUE, "subject: fetching", TRUE)
        /\ UNCHANGED <<fetching_collection, collection, collection_detail, search>>

fetch_subject(id) ==
    IF subject[id].tag = "Fetched" THEN
        /\ last' = Did("fetch_subject", id, Direct(subject[id].val), FALSE, NoMsg, FALSE)
        /\ UNCHANGED <<cache, rt>>
    ELSE IF subject[id].tag = "Fetching" THEN
        /\ last' = Did("fetch_subject", id, Deferred, FALSE, NoMsg, FALSE)
        /\ UNCHANGED <<cache, rt>>
    ELSE
        /\ InFlight < MaxTasks
        /\ subject' = [subject EXCEPT ![id] = Fetching]
        /\ rt' = Spawn(Task("subject", id))
        /\ last' = Did("fetch_subject", id, Deferred, TRUE, "subject: fetching", TRUE)
        /\ UNCHANGED <<fetching_collection, collection, collection_detail, search>>

subject_done(id, resp) ==
    /\ rt[Task("subject", id)] > 0
    /\ rt' = Finish(Task("subject", id))
    /\ subject' = [subject EXCEPT ![id] = Fetched(resp)]
    /\ last' = Did("subject_done", id, NoRet, FALSE, "subject: loaded", TRUE)
    /\ UNCHANGED <<fetching_collection, collection, collection_detail, search>>

(***************************************************************************)
(* AppState::populate_search and AppState::fetch_search.  A search entry   *)
(* stores only the ids; their subjects are read from the subject map.      *)
(***************************************************************************)
ShallowSearchResult(count, ids) == [count |-> count, ids |-> ids]

\* what client.search may answer: a count and a list of subjects
SearchResponses ==
    {[count |-> Len(l), list |-> [i \in 1..Len(l) |-> [id |-> l[i], val |-> v]]] :
        l \in SearchLists, v \in SubjectValues}

RECURSIVE populate_list_Skip(_, _)
\* populate_search with the early return lost: an unfetched subject is skipped
populate_list_Skip(ids, list) ==
    IF ids = <<>> THEN list
    ELSE IF subject[Head(ids)].tag = "Fetched"
        THEN populate_list_Skip(Tail(ids), Append(list, subject[Head(ids)].val))
        ELSE populate_list_Skip(Tail(ids), list)

RECURSIVE populate_list(_, _)
\* the for loop of populate_search: the contents pushed so far, or "Deferred"
populate_list(ids, list) ==
    IF ids = <<>> THEN list
    ELSE IF subject[Head(ids)].tag = "Fetched"
        THEN populate_list(Tail(ids), Append(list, subject[Head(ids)].val))
        ELSE "Deferred"

populate_search(shallow) ==
    LET list == populate_list(shallow.ids, <<>>) IN
    IF list = "Deferred" THEN Deferred
    ELSE Direct([count |-> shallow.count, list |-> list])

fetch_search(k) ==
    IF search[k].tag = "Fetched" THEN
        /\ last' = Did("fetch_search", k, populate_search(search[k].val), FALSE, NoMsg, FALSE)
        /\ UNCHANGED <<cache, rt>>
    ELSE IF search[k].tag = "Fetching" THEN
        /\ last' = Did("fetch_search", k, Deferred, FALSE, NoMsg, FALSE)
        /\ UNCHANGED <<cache, rt>>
    ELSE
        /\ InFlight < MaxTasks
        /\ search' = [search EXCEPT ![k] = Fetching]
        /\ rt' = Spawn(Task("search", k))
        /\ last' = Did("fetch_search", k, Deferred, TRUE, "search: searching", TRUE)
        /\ UNCHANGED <<fetching_collection, collection, collection_detail, subject>>

RECURSIVE insert_subjects(_, _)
\* the for loop of the map closure: every listed subject is stored as Fetched
insert_subjects(map, list) ==
    IF list = <<>> THEN map
    ELSE insert_subjects([map EXCEPT ![Head(list).id] = Fetched(Head(list).val)], Tail(list))

search_done(k, resp) ==
    /\ rt[Task("search", k)] > 0
    /\ rt' = Finish(Task("search", k))
    /\ subject' = insert_subjects(subject, resp.list)
    /\ search' = [search EXCEPT ![k] =
                    Fetched(ShallowSearchResult(resp.count, [i \in 1..Len(resp.list) |-> resp.list[i].id]))]
    /\ last' = Did("search_done", k, NoRet, FALSE, "search: done", TRUE)
    /\ UNCHANGED <<fetching_collection, collection, collection_detail>>

(***************************************************************************)
(* The map_err closure every spawned future ends with on an error: a       *)
(* message is pushed, no entry is written and the notifier is not used.    *)
(***************************************************************************)
task_failed(t) ==
    /\ rt[t] > 0
    /\ rt' = Finish(t)
    /\ last' = Did("task_failed", t, NoRet, FALSE, "request failed", FALSE)
    /\ UNCHANGED cache

(***************************************************************************)
(* AppState::refresh_*                                                     *)
(***************************************************************************)
refresh_collection ==
    /\ collection' = Discarded
    /\ last' = Did("refresh_collection", NoKey, NoRet, FALSE, NoMsg, FALSE)
    /\ UNCHANGED <<fetching_collection, collection_detail, subject, search, rt>>

\* Entry::and_modify: a vacant slot stays vacant
and_modify_discard(map, key) ==
    IF map[key].tag = "Vacant" THEN map ELSE [map EXCEPT ![key] = Discarded]

refresh_search(k) ==
    /\ search' = and_modify_discard(search, k)
    /\ last' = Did("refresh_search", k, NoRet, FALSE, NoMsg, FALSE)
    /\ UNCHANGED <<fetching_collection, collection, collection_detail, subject, rt>>

refresh_subject(id) ==
    /\ subject' = and_modify_discard(subject, id)
    /\ last' = Did("refresh_subject", id, NoRet, FALSE, NoMsg, FALSE)
    /\ UNCHANGED <<fetching_collection, collection, collection_detail, search, rt>>

refresh_collection_detail(id) ==
    /\ collection_detail' = and_modify_discard(collection_detail, id)
    /\ last' = Did("refresh_collection_detail", id, NoRet, FALSE, NoMsg, FALSE)
    /\ UNCHANGED <<fetching_collection, collection, subject, search, rt>>

(***************************************************************************)
(* The Scroll widget (src/src/widgets.rs) over a ScrollState               *)
(* (src/src/state.rs).  Offsets, heights and widths are u16; `+` and `-`   *)
(* on them wrap in the release build and panic in the debug build.         *)
(***************************************************************************)
\* children pushed into one Scroll
MaxChildren == 2
\* rows of a short child and of a short viewport, columns of a viewport
MaxRows == 2
\* rows of a child that is taller than every viewport of the model
TallRows == 1003
\* rows of a tall viewport
TallViewport == 1001
\* the largest offset a click on the scrollbar asks for (ScrollEvent::ScrollTo)
MaxOffset == 3

\* u16 holds 0 .. U16 - 1, i16 holds -I16 .. I16 - 1
U16 == 65536
I16 == 32768
\* the offset 'G' stores: std::u16::MAX - 1000
ScrollEnd == 64535

\* rows a child may answer, viewports the layout may hand down, offsets that
\* ScrollState::set may be given
ChildRows == (0 .. MaxRows) \cup {TallRows}
Rects == [width : 0 .. MaxRows, height : (0 .. MaxRows) \cup {TallViewport}]
Offsets == (0 .. MaxOffset) \cup {ScrollEnd}

VARIABLES
    content,  \* Scroll.content: the children, each by the rows it answers
    bound,    \* Scroll.bound: width and height of the viewport
    scroll,   \* ScrollState.scroll, the offset Scroll.scroll points to
    panicked  \* the process has panicked

widget == <<content, bound, scroll, panicked>>


VARIABLES
    tabs,        \* UIState.tabs
    tab,         \* UIState.tab, the index of the active tab (counted from 0)
    command,     \* UIState.command
    pending,     \* UIState.pending
    focus,       \* UIState.focus, the FocusState of the Collection tab
    filters,     \* UIState.filters
    help,        \* UIState.help
    meaningless, \* UIState.last_input_meaningless and UIState.meaningless_count
    click,       \* UIState.last_click and UIState.last_click_interval
    cjk,         \* a CJKText, and what height and draw have made of it
    stdin,       \* the terminal's input, the listener thread, UIState.stdin_lock
                 \* and the editor UIState::edit runs
    terminal,    \* what the last render pass did to the terminal before drawing
    pc,          \* where bootstrap's main loop stands
    handled      \* the event reduce has handled since the last render pass,
                 \* the long command it met, the layer that took it and the
                 \* calls it made on the AppState

uistate == <<tabs, tab, command, pending, focus, filters, help, meaningless, click, cjk, stdin, terminal,
             pc, handled>>

\* A u16 expression's value and whether evaluating it overflowed.
Val(n) == [v |-> n, overflow |-> FALSE]
Add(a, b) ==
    [v |-> (a.v + b.v) % U16,
     overflow |-> a.overflow \/ b.overflow \/ a.v + b.v >= U16]
Sub(a, b) ==
    [v |-> (a.v - b.v + U16) % U16,
     overflow |-> a.overflow \/ b.overflow \/ a.v < b.v]
\* x, evaluated after e was
After(x, e) == [v |-> x.v, overflow |-> x.overflow \/ e.overflow]

\* What an evaluation leaves: where an operation overflowed the debug build
\* (overflow checks on) panics and the release build goes on with the wrapped
\* value.
Outcomes(r) ==
    IF r.overflow
    THEN {[panic |-> TRUE, v |-> 0], [panic |-> FALSE, v |-> r.v]}
    ELSE {[panic |-> FALSE, v |-> r.v]}

\* Rect::default()
Rect_default == [width |-> 0, height |-> 0]

\* DynHeight::height of a child: the children of the model answer the same
\* number of rows at every width.
height(e, width) == e

\* content[0 .. n-1].fold(0, |acc, e| acc + e.height(width))
RECURSIVE fold_height(_, _)
fold_height(n, width) ==
    IF n = 0 THEN Val(0)
    ELSE Add(fold_height(n - 1, width), Val(height(content[n], width)))

inner_height(width) ==
    IF width = 0 THEN Val(0) ELSE fold_height(Len(content), width)

\* self.bound.width-1
content_width == Sub(Val(bound.width), Val(1))

\* Scroll::with, at the start of a frame: no children, no bound, the offset is
\* the ScrollState's
Scroll_with ==
    /\ ~panicked
    /\ content' = <<>>
    /\ bound' = Rect_default
    /\ last' = Did("with", NoKey, NoRet, FALSE, NoMsg, FALSE)
    /\ UNCHANGED <<scroll, panicked, cache, rt, uistate>>

push(comp) ==
    /\ ~panicked
    /\ Len(content) < MaxChildren
    /\ content' = Append(content, comp)
    /\ last' = Did("push", NoKey, NoRet, FALSE, NoMsg, FALSE)
    /\ UNCHANGED <<bound, scroll, panicked, cache, rt, uistate>>

set_bound(area) ==
    /\ ~panicked
    /\ bound' = area
    /\ last' = Did("set_bound", NoKey, NoRet, FALSE, NoMsg, FALSE)
    /\ UNCHANGED <<content, scroll, panicked, cache, rt, uistate>>

\* the offset cap_bound leaves
cap_bound_offset ==
    LET new_height == After(inner_height(content_width.v), content_width)
    IN  IF new_height.v <= bound.height THEN After(Val(0), new_height)
        ELSE LET sum == After(Add(Val(bound.height), Val(scroll)), new_height)
             IN  IF new_height.v <= sum.v
                 THEN After(Sub(new_height, Val(bound.height)), sum)
                 ELSE After(Val(scroll), sum)

cap_bound ==
    /\ ~panicked
    /\ \E out \in Outcomes(cap_bound_offset) :
          /\ panicked' = out.panic
          /\ scroll' = IF out.panic THEN scroll ELSE out.v
    /\ last' = Did("cap_bound", NoKey, NoRet, FALSE, NoMsg, FALSE)
    /\ UNCHANGED <<content, bound, cache, rt, uistate>>

\* if index >= self.content.len() { self.content.len() - 1 } else { index }
clamp_index(index) ==
    IF index >= Len(content) THEN Len(content) - 1 ELSE index

\* scroll_into_view with the arm for a child below the viewport left out
new_offset_NoBottomArm(index) ==
    LET start == After(fold_height(index, content_width.v), content_width)
        end == Add(start, Val(height(content[index + 1], content_width.v)))
    IN  IF start.v < scroll THEN After(start, end)
        ELSE After(Val(scroll), end)

\* the offset scroll_into_view leaves for the child at index (counted from 0)
new_offset(index) ==
    LET start == After(fold_height(index, content_width.v), content_width)
        end == Add(start, Val(height(content[index + 1], content_width.v)))
    IN  IF start.v < scroll THEN After(start, end)
        ELSE LET sum == After(Add(Val(scroll), Val(bound.height)), end)
             IN  IF end.v > sum.v
                 THEN After(Sub(end, Val(bound.height)), sum)
                 ELSE After(Val(scroll), sum)

\* With no children self.content.len() - 1 underflows: the debug build panics
\* there, the release build on the out-of-range index that follows.
scroll_into_view(index) ==
    /\ ~panicked
    /\ IF content = <<>>
       THEN panicked' = TRUE /\ scroll' = scroll
       ELSE \E out \in Outcomes(new_offset(clamp_index(index))) :
               /\ panicked' = out.panic
               /\ scroll' = IF out.panic THEN scroll ELSE out.v
    /\ last' = Did("scroll_into_view", index, NoRet, FALSE, NoMsg, FALSE)
    /\ UNCHANGED <<content, bound, cache, rt, uistate>>

\* ScrollState::set
set(s) ==
    /\ ~panicked
    /\ scroll' = s
    /\ last' = Did("set", NoKey, NoRet, FALSE, NoMsg, FALSE)
    /\ UNCHANGED <<content, bound, panicked, cache, rt, uistate>>

\* the offset ScrollState::delta leaves: self.scroll as i16 + delta, then 0 if
\* that is negative
delta_offset(d) ==
    LET as_i16 == IF scroll >= I16 THEN scroll - U16 ELSE scroll
        sum == as_i16 + d
        new_scroll == ((sum + I16) % U16) - I16
    IN  [v |-> IF new_scroll < 0 THEN 0 ELSE new_scroll,
         overflow |-> sum < -I16 \/ sum >= I16]

\* ScrollState::delta, by one row up or down, from the offsets of the model
delta(d) ==
    /\ ~panicked
    /\ scroll \in Offsets
    /\ \E out \in Outcomes(delta_offset(d)) :
          /\ panicked' = out.panic
          /\ scroll' = IF out.panic THEN scroll ELSE out.v
    /\ last' = Did("delta", NoKey, NoRet, FALSE, NoMsg, FALSE)
    /\ UNCHANGED <<content, bound, cache, rt, uistate>>

\* ScrollState::default() and Scroll::with
InitScroll ==
    /\ content = <<>>
    /\ bound = Rect_default
    /\ scroll = 0
    /\ panicked = FALSE

(***************************************************************************)
(* Option<T> and FocusState (src/src/state.rs).                            *)
(***************************************************************************)
\* entries a focused list may hold
MaxLimit == 6
\* std::usize::MAX, at the width of the model checker's integers
UsizeMax == 2147483647

None == [some |-> FALSE, v |-> <<>>]
Some(x) == [some |-> TRUE, v |-> <<x>>]

\* FocusState::default()
FocusState_default == [focus |-> None, limit |-> 0]

\* normalize with the clamp to limit - 1 lost
normalize_NoClamp(fs) ==
    IF fs.focus.some /\ fs.focus.v[1] >= fs.limit /\ fs.limit = 0
    THEN [fs EXCEPT !.focus = None]
    ELSE fs

normalize(fs) ==
    IF fs.focus.some /\ fs.focus.v[1] >= fs.limit
    THEN IF fs.limit = 0
         THEN [fs EXCEPT !.focus = None]
         ELSE [fs EXCEPT !.focus = Some(fs.limit - 1)]
    ELSE fs

\* FocusState::set
FocusState_set(fs, f) == normalize([fs EXCEPT !.focus = f])

set_limit(fs, limit) == normalize([fs EXCEPT !.limit = limit])

next(fs) ==
    IF fs.focus.some
    THEN FocusState_set(fs, Some(fs.focus.v[1] + 1))
    ELSE FocusState_set(fs, Some(0))

prev(fs) ==
    IF fs.focus.some /\ fs.focus.v[1] > 0
    THEN FocusState_set(fs, Some(fs.focus.v[1] - 1))
    ELSE fs

\* what FocusState::set may be given, and FocusState::set_limit
FocusArgs == {None, Some(UsizeMax)} \cup {Some(i) : i \in 0 .. MaxLimit}
Limits == 0 .. MaxLimit

\* The methods of FocusState, called on UIState.focus.
focus_set(f) ==
    /\ focus' = FocusState_set(focus, f)
    /\ last' = Did("FocusState::set", f, NoRet, FALSE, NoMsg, FALSE)
    /\ UNCHANGED <<tabs, tab, command, pending, filters, help, meaningless, click, cjk, stdin, terminal, pc,
                   handled, widget, cache, rt>>

focus_set_limit(limit) ==
    /\ focus' = set_limit(focus, limit)
    /\ last' = Did("FocusState::set_limit", limit, NoRet, FALSE, NoMsg, FALSE)
    /\ UNCHANGED <<tabs, tab, command, pending, filters, help, meaningless, click, cjk, stdin, terminal, pc,
                   handled, widget, cache, rt>>

focus_next ==
    /\ focus' = next(focus)
    /\ last' = Did("FocusState::next", NoKey, NoRet, FALSE, NoMsg, FALSE)
    /\ UNCHANGED <<tabs, tab, command, pending, filters, help, meaningless, click, cjk, stdin, terminal, pc,
                   handled, widget, cache, rt>>

focus_prev ==
    /\ focus' = prev(focus)
    /\ last' = Did("FocusState::prev", NoKey, NoRet, FALSE, NoMsg, FALSE)
    /\ UNCHANGED <<tabs, tab, command, pending, filters, help, meaningless, click, cjk, stdin, terminal, pc,
                   handled, widget, cache, rt>>

(***************************************************************************)
(* Tab, UIEvent, PendingUIEvent, LongCommand and the tab methods of        *)
(* UIState (src/src/state.rs).  A String is the sequence of its chars.     *)
(***************************************************************************)
\* tabs open at once
MaxTabs == 3

Collection == [kind |-> "Collection"]
Search(text) == [kind |-> "Search", text |-> text]
Subject(id, sc) == [kind |-> "Subject", id |-> id, scroll |-> sc]
SearchResult(text, index, sc, fs) ==
    [kind |-> "SearchResult", search |-> text, index |-> index, scroll |-> sc,
     focus |-> fs]

\* UIEvent::Key(key): key is "Esc", "Backspace", "Ctrl-q", "Down", "Up" or, for
\* Key::Char(c), the char itself ("\n" and "\t" among them)
Key(code) == [type |-> "Key", code |-> code, btn |-> "-", at |-> <<>>]
\* UIEvent::Mouse(MouseEvent::Press(btn, x, y) / Hold(x, y) / Release(x, y)); the
\* cell (x, y) is given by what the render pass has drawn there: <<"tabber", i>>
\* the i-th tab name, <<"filter", i>> the i-th filter, <<"content", i>> the i-th
\* child of the Scroll of the tab's body, <<"bar", 0>> its scrollbar and
\* <<"none", 0>> anything else
Mouse(code, btn, at) == [type |-> "Mouse", code |-> code, btn |-> btn, at |-> at]

NamedKeys == {"Esc", "Backspace", "Ctrl-q", "Down", "Up"}
Digits == <<"0", "1", "2", "3", "4", "5", "6", "7", "8", "9">>
IsChar(ev) == ev.type = "Key" /\ ev.code \notin NamedKeys
IsDigit(c) == \E i \in 1 .. 10 : Digits[i] = c
\* char::to_digit(10)
to_digit(c) == (CHOOSE i \in 1 .. 10 : Digits[i] = c) - 1

\* PendingUIEvent
Click(at, btn) == [kind |-> "Click", arg |-> [at |-> at, btn |-> btn]]
ScrollIntoView(index) == [kind |-> "ScrollIntoView", arg |-> index]
KBTabSelect == [kind |-> "KBTabSelect", arg |-> 0]
Quit == [kind |-> "Quit", arg |-> 0]
Reset == [kind |-> "Reset", arg |-> 0]

\* LongCommand
Absent == [kind |-> "Absent"]
Graphical == [kind |-> "Graphical"]
Command(cmd) == [kind |-> "Command", text |-> cmd]
Toggle == [kind |-> "Toggle"]
EditRating(id, coll, rating) ==
    [kind |-> "EditRating", id |-> id, coll |-> coll, text |-> rating]
EditStatus(id, coll, current) ==
    [kind |-> "EditStatus", id |-> id, coll |-> coll, status |-> current]
SearchInput(staging) == [kind |-> "SearchInput", text |-> staging]

\* LongCommand::present
present(c) == c.kind # "Absent"

\* Vec::remove(index) and Vec::insert(index, x), index counted from 0
Remove(v, index) == SubSeq(v, 1, index) \o SubSeq(v, index + 2, Len(v))
Insert(v, index, x) == SubSeq(v, 1, index) \o <<x>> \o SubSeq(v, index + 1, Len(v))
\* String::pop
Pop(s) == SubSeq(s, 1, Len(s) - 1)

\* UIState::active_tab
active_tab == tabs[tab + 1]

rotate_tab == IF tab # Len(tabs) - 1 THEN tab + 1 ELSE 0

rotate_tab_rev == IF tab # 0 THEN tab - 1 ELSE Len(tabs) - 1

select_tab(index) == IF index >= Len(tabs) THEN Len(tabs) - 1 ELSE index

\* UIState::open_tab(new, None): the tabs after it and the position it returns
open_tab(new) ==
    LET pos == IF tab + 1 > Len(tabs) THEN Len(tabs) ELSE tab + 1
    IN  [tabs |-> Insert(tabs, pos, new), tab |-> pos]

\* replace_tab
replace_tab(new) == [tabs EXCEPT ![tab + 1] = new]

\* move_tab without the step back for a destination behind the active tab
move_tab_NoStepBack(n) ==
    LET dest == IF n > Len(tabs) THEN Len(tabs) ELSE n
        rest == Remove(tabs, tab)
        at == IF dest > Len(rest) THEN Len(rest) ELSE dest
    IN  [tabs |-> Insert(rest, at, tabs[tab + 1]), tab |-> at]

\* UIState::move_tab: the tabs after it and the index it returns
move_tab(n) ==
    LET dest == IF n > Len(tabs) THEN Len(tabs) ELSE n
        rest == Remove(tabs, tab)
        at == IF dest > tab THEN dest - 1 ELSE dest
    IN  [tabs |-> Insert(rest, at, tabs[tab + 1]), tab |-> at]

\* close_tab that leaves the active index where it is
close_tab_NoStepBack(index) ==
    LET left == IF index < Len(tabs) THEN Remove(tabs, index) ELSE tabs
    IN  [tabs |-> left, tab |-> tab,
         pending |-> IF Len(left) = 0 THEN Some(Quit) ELSE pending]

\* UIState::close_tab: tabs, tab and pending after it
close_tab(index) ==
    LET moved == IF index < Len(tabs) /\ tab = Len(tabs) - 1 /\ tab # 0
                 THEN tab - 1 ELSE tab
        left == IF index < Len(tabs) THEN Remove(tabs, index) ELSE tabs
    IN  [tabs |-> left, tab |-> moved,
         pending |-> IF Len(left) = 0 THEN Some(Quit) ELSE pending]

\* Tab::subject_id
subject_id(t) == IF t.kind = "Subject" THEN Some(t.id) ELSE None

\* goto_detail that opens a tab without looking for one
goto_detail_AlwaysOpen(id) == open_tab(Subject(id, 0))

\* UIState::goto_detail: tabs and tab after it
goto_detail(id) ==
    IF \E i \in 1 .. Len(tabs) : subject_id(tabs[i]) = Some(id)
    THEN [tabs |-> tabs,
          tab |-> (CHOOSE i \in 1 .. Len(tabs) :
                      /\ subject_id(tabs[i]) = Some(id)
                      /\ \A j \in 1 .. i - 1 : subject_id(tabs[j]) # Some(id)) - 1]
    ELSE open_tab(Subject(id, 0))

(***************************************************************************)
(* What the server's answers hold: the entries of a collection and the     *)
(* CollectionDetail of a subject.                                          *)
(***************************************************************************)
CollectionEntry(id, type, ep_status, eps_count, vol_status, vols_count) ==
    [id |-> id, subject_type |-> type, ep_status |-> ep_status,
     eps_count |-> eps_count, vol_status |-> vol_status, vols_count |-> vols_count]

\* the entries of the collection c1: an anime half watched, a book read to its
\* last volume, a series of unknown length not yet begun, an anime watched to
\* its last episode
Entries(v) ==
    << CollectionEntry(1, "Anime", 5, Some(12), 0, None),
       CollectionEntry(2, "Book", 0, None, 3, Some(3)),
       CollectionEntry(3, "Real", 0, None, 0, None),
       CollectionEntry(4, "Anime", 12, Some(12), 0, None) >>

\* the CollectionDetail behind Some(detail): rating 7, status Doing
CollectionDetail(rating, status) == [rating |-> rating, status |-> status]
\* the answers that carry a detail with the rating n, as Rated[n + 1], and the
\* statuses a detail can have
Rated ==
    <<"rated 0", "rated 1", "rated 2", "rated 3", "rated 4", "rated 5",
      "rated 6", "rated 7", "rated 8", "rated 9", "rated 10">>
Statuses == {"Wished", "Doing", "Done", "OnHold", "Dropped"}
\* "Some" is a detail with rating 7 and status Doing, Rated[n + 1] one with
\* rating n, and the name of a status one with that status
DetailOf(v) ==
    IF \E n \in 1 .. Len(Rated) : Rated[n] = v
    THEN CollectionDetail((CHOOSE n \in 1 .. Len(Rated) : Rated[n] = v) - 1, "Doing")
    ELSE IF v \in Statuses THEN CollectionDetail(7, v)
    ELSE CollectionDetail(7, "Doing")

SELECTS == <<"Anime", "Book", "Real">>

\* UIState::do_filter over Option<Vec<CollectionEntry>>
do_filter(fl, entries) ==
    IF ~entries.some THEN <<>>
    ELSE SelectSeq(entries.v[1],
                   LAMBDA e : \E i \in 1 .. Len(SELECTS) :
                                 SELECTS[i] = e.subject_type /\ fl[i])

\* .skip(n).next()
Nth(s, n) == IF n < Len(s) THEN Some(s[n + 1]) ELSE None

\* FetchResult<T> into Option<T>
into(ret) == IF ret.tag = "Direct" THEN Some(Entries(ret.val)) ELSE None

\* what fetch_collection, fetch_collection_detail(id) and fetch_search(k) return
\* when called now
fetch_collection_ret ==
    IF fetching_collection /\ collection.tag = "Fetched"
    THEN Direct(collection.val) ELSE Deferred
fetch_collection_detail_ret(id) ==
    IF collection_detail[id].tag = "Fetched"
    THEN Direct(collection_detail[id].val) ELSE Deferred
fetch_search_ret(k) ==
    IF search[k].tag = "Fetched" THEN populate_search(search[k].val) ELSE Deferred

\* the calls reduce makes on the AppState, with their arguments
Call(op, arg) == [op |-> op, arg |-> arg]

\* Default for CollectionStatus (src/src/client.rs)
CollectionStatus_default == "Doing"

\* rotate that passes over OnHold
rotate_SkipsOnHold(status) ==
    CASE status = "Wished" -> "Doing"
      [] status = "Doing" -> "Done"
      [] status = "Done" -> "Dropped"
      [] status = "OnHold" -> "Dropped"
      [] status = "Dropped" -> "Wished"

\* CollectionStatusExt::rotate (src/src/bin.rs)
rotate(status) ==
    CASE status = "Wished" -> "Doing"
      [] status = "Doing" -> "Done"
      [] status = "Done" -> "OnHold"
      [] status = "OnHold" -> "Dropped"
      [] status = "Dropped" -> "Wished"

\* str::parse: the number a string of decimal digits spells, None otherwise
RECURSIVE digits_value(_)
digits_value(s) ==
    IF s = <<>> THEN 0 ELSE 10 * digits_value(Pop(s)) + to_digit(s[Len(s)])
parse(s, max) ==
    IF s # <<>> /\ (\A i \in 1 .. Len(s) : IsDigit(s[i])) /\ digits_value(s) <= max
    THEN Some(digits_value(s)) ELSE None
\* u8::to_string
RECURSIVE to_string(_)
to_string(n) ==
    IF n < 10 THEN <<Digits[n + 1]>> ELSE Append(to_string(n \div 10), Digits[(n % 10) + 1])

\* str::starts_with
starts_with(s, p) == Len(s) >= Len(p) /\ SubSeq(s, 1, Len(p)) = p

\* What one arm of reduce leaves of the UIState: the fields as they are, to be
\* changed by the arm; noise is last_input_meaningless and calls lists the
\* calls made on the AppState.
Same ==
    [tabs |-> tabs, tab |-> tab, command |-> command, pending |-> pending,
     focus |-> focus, filters |-> filters, help |-> help, scroll |-> scroll,
     noise |-> FALSE, calls |-> <<>>]

\* toggle_filter that flips the filter and leaves the focus index where it is
toggle_filter_KeepsIndex(index, entries) ==
    IF index >= Len(filters) THEN [filters |-> filters, focus |-> focus]
    ELSE [filters |-> [filters EXCEPT ![index + 1] = ~@], focus |-> focus]

\* UIState::toggle_filter: filters and focus after it
toggle_filter(index, entries) ==
    IF index >= Len(filters) THEN [filters |-> filters, focus |-> focus]
    ELSE LET at == IF focus.focus.some
                   THEN Nth(do_filter(filters, entries), focus.focus.v[1]) ELSE None
             original == IF at.some THEN Some(at.v[1].id) ELSE None
             flipped == [filters EXCEPT ![index + 1] = ~@]
             shown == do_filter(flipped, entries)
             hits == {i \in 1 .. Len(shown) : Some(shown[i].id) = original}
             new_focus == IF hits = {} THEN None
                          ELSE Some((CHOOSE i \in hits : \A j \in hits : j <= i) - 1)
         IN  [filters |-> flipped, focus |-> FocusState_set(focus, new_focus)]


(***************************************************************************)
(* UIState::reduce, the long command layer: one operator per arm of        *)
(* `match self.command`, for the key events the arm matches.               *)
(***************************************************************************)
\* "g" of "gg" and of the normal dispatch's "G": the active tab's offset and
\* focus set to where (offset) and what (index) is asked for
jump(offset, index) ==
    CASE active_tab.kind = "Collection" ->
            [Same EXCEPT !.scroll = offset,
                         !.focus = FocusState_set(focus, Some(index))]
      [] active_tab.kind = "Subject" ->
            [Same EXCEPT !.tabs = [tabs EXCEPT ![tab + 1].scroll = offset]]
      [] active_tab.kind = "SearchResult" ->
            [Same EXCEPT !.tabs = [tabs EXCEPT
                ![tab + 1].scroll = offset,
                ![tab + 1].focus = FocusState_set(active_tab.focus, Some(index))]]
      [] OTHER -> Same

long_Graphical(ev) ==
    CASE ev.code = "t" ->
            [Same EXCEPT !.tab = rotate_tab, !.pending = Some(KBTabSelect),
                         !.command = Absent]
      [] ev.code = "T" ->
            [Same EXCEPT !.tab = rotate_tab_rev, !.pending = Some(KBTabSelect),
                         !.command = Absent]
      [] ev.code = "g" -> [jump(0, 0) EXCEPT !.command = Absent]
      [] OTHER -> [Same EXCEPT !.command = Absent]

\* the Enter arm of LongCommand::Command
commit_Command(cmd) ==
    CASE cmd = <<"q", "a">> -> [Same EXCEPT !.pending = Some(Quit)]
      [] cmd = <<"q">> ->
            LET closed == close_tab(tab)
            IN  [Same EXCEPT !.tabs = closed.tabs, !.tab = closed.tab,
                             !.pending = Some(KBTabSelect)]
      [] cmd = <<"h", "e", "l", "p">> -> [Same EXCEPT !.help = ~help]
      [] cmd = <<"t", "a", "b", "e", " ", "s", "e", "a", "r", "c", "h">> ->
            LET opened == open_tab(Search(<<>>))
            IN  [Same EXCEPT !.tabs = opened.tabs, !.tab = opened.tab]
      [] cmd = <<"t", "a", "b", "e", " ", "c", "o", "l", "l">> ->
            LET opened == open_tab(Collection)
            IN  [Same EXCEPT !.tabs = opened.tabs, !.tab = opened.tab]
      [] starts_with(cmd, <<"t", "a", "b", "m", " ">>) ->
            LET index == parse(SubSeq(cmd, 6, Len(cmd)), UsizeMax)
            IN  IF index.some
                THEN LET moved == move_tab(index.v[1])
                     IN  [Same EXCEPT !.tabs = moved.tabs, !.tab = moved.tab,
                                      !.pending = Some(KBTabSelect)]
                ELSE [Same EXCEPT !.calls =
                        <<Call("publish_message", "not a number")>>]
      [] OTHER -> [Same EXCEPT !.calls =
                        <<Call("publish_message", "unknown command")>>]

long_Command(ev) ==
    CASE ev.code = "\n" -> [commit_Command(command.text) EXCEPT !.command = Absent]
      [] ev.code = "Backspace" ->
            IF command.text = <<>> THEN [Same EXCEPT !.command = Absent]
            ELSE [Same EXCEPT !.command = Command(Pop(command.text))]
      [] IsChar(ev) /\ ev.code # "\n" ->
            [Same EXCEPT !.command = Command(Append(command.text, ev.code))]
      [] OTHER -> Same

long_Toggle(ev) ==
    IF IsDigit(ev.code) /\ ev.code # "0"
    THEN LET toggled == toggle_filter(to_digit(ev.code) - 1, into(fetch_collection_ret))
         IN  [Same EXCEPT !.filters = toggled.filters, !.focus = toggled.focus,
                          !.command = Absent,
                          !.calls = <<Call("fetch_collection", NoKey)>>]
    ELSE [Same EXCEPT !.command = Absent]

\* the digit arm of LongCommand::EditRating with every digit appended
type_rating_Append(rating, c) == Append(rating, c)

\* the digit arm of LongCommand::EditRating: the buffer after the key
type_rating(rating, c) ==
    IF rating = <<>> \/ (rating = <<"1">> /\ c = "0") THEN Append(rating, c)
    ELSE IF rating = <<"0">> THEN <<c>>
    ELSE rating

\* the Enter arm of LongCommand::EditRating that does not compare the number
\* with the stored rating
commit_EditRating_NoCompare(id, coll, rating) ==
    LET parsed == parse(rating, 255)
        digit == IF parsed.v[1] > 10 THEN 10 ELSE parsed.v[1]
    IN  IF parsed.some
        THEN <<Call("update_collection_detail",
                    [id |-> id, status |-> coll.status,
                     original |-> Some([coll EXCEPT !.rating = digit])])>>
        ELSE <<>>

\* the Enter arm of LongCommand::EditRating: the calls it makes
commit_EditRating(id, coll, rating) ==
    LET parsed == parse(rating, 255)
        digit == IF parsed.v[1] > 10 THEN 10 ELSE parsed.v[1]
    IN  IF parsed.some /\ coll.rating # digit
        THEN <<Call("update_collection_detail",
                    [id |-> id, status |-> coll.status,
                     original |-> Some([coll EXCEPT !.rating = digit])])>>
        ELSE <<>>

long_EditRating(ev) ==
    CASE ev.code = "\n" ->
            [Same EXCEPT !.command = Absent,
                         !.calls = commit_EditRating(command.id, command.coll, command.text)]
      [] ev.code = "Backspace" ->
            [Same EXCEPT !.command = [command EXCEPT !.text = Pop(@)]]
      [] IsDigit(ev.code) ->
            [Same EXCEPT !.command =
                [command EXCEPT !.text = type_rating(@, ev.code)]]
      [] OTHER -> Same

long_EditStatus(ev) ==
    CASE ev.code = "\t" ->
            [Same EXCEPT !.command = [command EXCEPT !.status = rotate(@)]]
      [] ev.code = "\n" ->
            [Same EXCEPT !.command = Absent,
                         !.calls = <<Call("update_collection_detail",
                                          [id |-> command.id, status |-> command.status,
                                           original |-> command.coll])>>]
      [] OTHER -> [Same EXCEPT !.command = Absent]

long_SearchInput(ev) ==
    CASE ev.code = "\n" ->
            [Same EXCEPT !.command = Absent,
                         !.tabs = IF active_tab.kind = "Search"
                                  THEN [tabs EXCEPT ![tab + 1].text = command.text]
                                  ELSE tabs]
      [] ev.code = "Backspace" ->
            [Same EXCEPT !.command = SearchInput(Pop(command.text))]
      [] IsChar(ev) /\ ev.code # "\n" ->
            [Same EXCEPT !.command = SearchInput(Append(command.text, ev.code))]
      [] OTHER -> Same

\* the arms of the long commands matching every event
long_matches_All(ev) ==
    command.kind \in {"Graphical", "Command", "Toggle", "EditRating", "EditStatus",
                      "SearchInput"}

\* the events the arm of the active long command matches, Esc apart: every arm
\* ends in UIEvent::Key(_), and in `_ => {}` for what is no key
long_matches(ev) ==
    command.kind \in {"Graphical", "Command", "Toggle", "EditRating", "EditStatus",
                      "SearchInput"}
    /\ ev.type = "Key"

long_command(ev) ==
    CASE command.kind = "Graphical" -> long_Graphical(ev)
      [] command.kind = "Command" -> long_Command(ev)
      [] command.kind = "Toggle" -> long_Toggle(ev)
      [] command.kind = "EditRating" -> long_EditRating(ev)
      [] command.kind = "EditStatus" -> long_EditStatus(ev)
      [] command.kind = "SearchInput" -> long_SearchInput(ev)


(***************************************************************************)
(* UIState::reduce, the normal dispatch: the arms of `match ev` in their   *)
(* order, the first whose pattern and guard hold being taken.              *)
(***************************************************************************)
\* ScrollState::delta on an offset s
ScrollState_delta(s, d) ==
    LET as_i16 == IF s >= I16 THEN s - U16 ELSE s
        new_scroll == ((as_i16 + d + I16) % U16) - I16
    IN  IF new_scroll < 0 THEN 0 ELSE new_scroll

\* what UIState::edit comes back with: the editor could not be started (with
\* or without the message that it was not found), it failed, or it left the
\* text as it was or changed
EditorOutcomes == {"error", "not found", "failed", "same", "changed"}

\* focus.next() / focus.prev() and the ScrollIntoView that follows
move_focus(fs) ==
    IF fs.focus.some THEN Some(ScrollIntoView(fs.focus.v[1])) ELSE pending

\* a step that saturates neither at 0 nor at the total
step_NoSaturation(status, count, dist) == status + dist

\* CollectionEntry::step_ep and step_vol (src/src/client.rs)
step(status, count, dist) ==
    IF dist < 0
    THEN IF status < -dist THEN 0 ELSE status - (-dist)
    ELSE LET pending_status == status + dist
         IN  IF count.some /\ count.v[1] < pending_status THEN count.v[1] ELSE pending_status
step_ep(t, dist) == step(t.ep_status, t.eps_count, dist)
step_vol(t, dist) == step(t.vol_status, t.vols_count, dist)

\* the '+' and '-' arms
step_progress(dist) ==
    LET target == Nth(do_filter(filters, into(fetch_collection_ret)), focus.focus.v[1])
    IN  IF target.some
        THEN [Same EXCEPT !.calls =
                << Call("fetch_collection", NoKey),
                   Call("update_progress",
                        IF target.v[1].subject_type = "Book"
                        THEN [id |-> target.v[1].id, ep |-> None,
                              vol |-> Some(step_vol(target.v[1], dist))]
                        ELSE [id |-> target.v[1].id, ep |-> Some(step_ep(target.v[1], dist)),
                              vol |-> None]) >>]
        ELSE [Same EXCEPT !.calls = <<Call("fetch_collection", NoKey)>>]

\* tabs and tab after goto_detail, in an arm's result
with_detail(r, id) ==
    [r EXCEPT !.tabs = goto_detail(id).tabs, !.tab = goto_detail(id).tab]

\* the search a SearchResult tab shows, as the key of AppState's search map
search_key(t) == <<t.search[1], t.index>>

\* the 't' and 'c' arms of a Subject tab: the editor runs on the tags (every
\* text it returns is sent) or on the comment (a changed text is sent)
edit_detail(id, send_same, outcome) ==
    LET ret == fetch_collection_detail_ret(id)
        fetched == <<Call("fetch_collection_detail", id)>>
    IN  IF ret.tag = "Direct" /\ ret.val # "None"
        THEN [Same EXCEPT
                !.pending = Some(Reset),
                !.calls =
                    CASE outcome = "not found" ->
                            fetched \o <<Call("publish_message", "no editor")>>
                      [] outcome = "changed" \/ (outcome = "same" /\ send_same) ->
                            fetched \o <<Call("update_collection_detail",
                                              [id |-> id, status |-> DetailOf(ret.val).status,
                                               original |-> Some(DetailOf(ret.val))])>>
                      [] OTHER -> fetched]
        ELSE [Same EXCEPT !.calls = fetched]

is_collection == active_tab.kind = "Collection"
is_subject == active_tab.kind = "Subject"
is_search == active_tab.kind = "Search"
is_search_result == active_tab.kind = "SearchResult"
\* Tab::get_focus
get_focus == IF is_search_result THEN active_tab.focus.focus ELSE None

\* the 'R' arm
refresh_active ==
    CASE is_collection -> <<Call("refresh_collection", NoKey)>>
      [] is_subject -> << Call("refresh_subject", active_tab.id),
                          Call("refresh_collection_detail", active_tab.id) >>
      [] is_search_result -> <<Call("refresh_search", search_key(active_tab))>>
      [] OTHER -> <<>>

normal_dispatch(ev, outcome) ==
    LET k == ev.code
        key == ev.type = "Key"
    IN
    IF key /\ k = "Ctrl-q" THEN [Same EXCEPT !.pending = Some(Quit)]
    ELSE IF key /\ (k = "Down" \/ k = "j") /\ is_collection THEN
        [Same EXCEPT !.focus = next(focus), !.pending = move_focus(next(focus))]
    ELSE IF key /\ (k = "Up" \/ k = "k") /\ is_collection THEN
        [Same EXCEPT !.focus = prev(focus), !.pending = move_focus(prev(focus))]
    ELSE IF key /\ k = "t" /\ is_collection THEN [Same EXCEPT !.command = Toggle]
    ELSE IF key /\ k = "+" /\ is_collection /\ focus.focus.some THEN step_progress(1)
    ELSE IF key /\ k = "-" /\ is_collection /\ focus.focus.some THEN step_progress(-1)
    ELSE IF key /\ k = "\n" /\ is_collection /\ focus.focus.some THEN
        LET target == Nth(do_filter(filters, into(fetch_collection_ret)), focus.focus.v[1])
            fetched == [Same EXCEPT !.calls = <<Call("fetch_collection", NoKey)>>]
        IN  IF target.some THEN with_detail(fetched, target.v[1].id) ELSE fetched
    ELSE IF key /\ k = "Esc" /\ is_collection /\ focus.focus.some THEN
        [Same EXCEPT !.focus = FocusState_set(focus, None)]
    ELSE IF key /\ k = "s" /\ is_subject THEN
        LET ret == fetch_collection_detail_ret(active_tab.id)
            fetched == [Same EXCEPT !.calls = <<Call("fetch_collection_detail", active_tab.id)>>]
        IN  IF ret.tag = "Direct"
            THEN [fetched EXCEPT !.command =
                    IF ret.val = "None"
                    THEN EditStatus(active_tab.id, None, CollectionStatus_default)
                    ELSE EditStatus(active_tab.id, Some(DetailOf(ret.val)),
                                    DetailOf(ret.val).status)]
            ELSE fetched
    ELSE IF key /\ k = "r" /\ is_subject THEN
        LET ret == fetch_collection_detail_ret(active_tab.id)
            fetched == [Same EXCEPT !.calls = <<Call("fetch_collection_detail", active_tab.id)>>]
        IN  IF ret.tag = "Direct" /\ ret.val # "None"
            THEN [fetched EXCEPT !.command =
                    EditRating(active_tab.id, DetailOf(ret.val),
                               to_string(DetailOf(ret.val).rating))]
            ELSE fetched
    ELSE IF key /\ k = "t" /\ is_subject THEN edit_detail(active_tab.id, TRUE, outcome)
    ELSE IF key /\ k = "c" /\ is_subject THEN edit_detail(active_tab.id, FALSE, outcome)
    ELSE IF key /\ (k = "Down" \/ k = "j") /\ is_subject THEN
        [Same EXCEPT !.tabs = [tabs EXCEPT ![tab + 1].scroll = ScrollState_delta(@, 1)]]
    ELSE IF key /\ (k = "Up" \/ k = "k") /\ is_subject THEN
        [Same EXCEPT !.tabs = [tabs EXCEPT ![tab + 1].scroll = ScrollState_delta(@, -1)]]
    ELSE IF key /\ k = "Esc" /\ is_subject THEN
        [Same EXCEPT !.tabs = close_tab(tab).tabs, !.tab = close_tab(tab).tab,
                     !.pending = close_tab(tab).pending]
    ELSE IF key /\ k = "\n" /\ is_search THEN
        IF active_tab.text = <<>> THEN [Same EXCEPT !.command = SearchInput(<<>>)]
        ELSE [Same EXCEPT !.tabs =
                replace_tab(SearchResult(active_tab.text, 0, 0, FocusState_default))]
    ELSE IF key /\ k = "e" /\ is_search THEN
        [Same EXCEPT !.command = SearchInput(active_tab.text)]
    ELSE IF key /\ (k = "Down" \/ k = "j") /\ is_search_result THEN
        [Same EXCEPT !.tabs = [tabs EXCEPT ![tab + 1].focus = next(@)],
                     !.pending = move_focus(next(active_tab.focus))]
    ELSE IF key /\ (k = "Up" \/ k = "k") /\ is_search_result THEN
        [Same EXCEPT !.tabs = [tabs EXCEPT ![tab + 1].focus = prev(@)],
                     !.pending = move_focus(prev(active_tab.focus))]
    ELSE IF key /\ k = "\n" /\ is_search_result /\ get_focus.some THEN
        LET ret == fetch_search_ret(search_key(active_tab))
            fetched == [Same EXCEPT !.calls = <<Call("fetch_search", search_key(active_tab))>>]
        IN  IF ret.tag = "Direct" /\ get_focus.v[1] < Len(ret.val.list)
            THEN with_detail(fetched, search[search_key(active_tab)].val.ids[get_focus.v[1] + 1])
            ELSE fetched
    ELSE IF key /\ k = "Esc" /\ is_search_result /\ get_focus.some THEN
        [Same EXCEPT !.tabs = [tabs EXCEPT ![tab + 1].focus = FocusState_set(@, None)]]
    ELSE IF key /\ k = "n" /\ is_search_result THEN
        [Same EXCEPT !.tabs = [tabs EXCEPT ![tab + 1].index = @ + 1]]
    ELSE IF key /\ k = "N" /\ is_search_result THEN
        [Same EXCEPT !.tabs = [tabs EXCEPT ![tab + 1].index = IF @ > 0 THEN @ - 1 ELSE @]]
    ELSE IF key /\ k = "\t" THEN [Same EXCEPT !.tab = rotate_tab]
    ELSE IF key /\ k = "g" THEN [Same EXCEPT !.command = Graphical]
    ELSE IF key /\ k = "G" THEN jump(ScrollEnd, UsizeMax)
    ELSE IF key /\ k = "R" THEN [Same EXCEPT !.calls = refresh_active]
    ELSE IF key /\ k = ":" THEN [Same EXCEPT !.command = Command(<<>>)]
    ELSE IF key /\ (k = "?" \/ k = "h") THEN [Same EXCEPT !.help = ~help]
    \* help_scroll.delta(1) and delta(-1): the offset of the help text is kept
    \* in no variable
    ELSE IF key /\ (k = "J" \/ k = "K") /\ help THEN Same
    ELSE IF ~key /\ k = "Press" THEN [Same EXCEPT !.pending = Some(Click(ev.at, ev.btn))]
    ELSE IF ~key /\ k = "Hold" THEN [Same EXCEPT !.pending = Some(Click(ev.at, "Left"))]
    ELSE IF ~key THEN Same
    ELSE [Same EXCEPT !.noise = TRUE]

(***************************************************************************)
(* UIState::with (src/src/state.rs) and the start of bootstrap's main loop *)
(* (src/src/bin.rs).                                                       *)
(***************************************************************************)
\* no event handled yet
NoEvent == [type |-> "None", code |-> "-", btn |-> "-", at |-> <<>>]

NoneHandled ==
    [ev |-> NoEvent, mode |-> "Absent", by |-> "none", calls |-> <<>>, elapsed |-> 0]

(***************************************************************************)
(* CJKText (src/src/widgets.rs): styled text as runs of grapheme tokens,   *)
(* its height for a width and the cells draw writes into an area.  Cells   *)
(* are <<column, row>> counted from the area's corner; the styles do not   *)
(* bear on the layout and are left out.                                    *)
(***************************************************************************)
\* tokens of all runs of a text together, and runs of a text
MaxTokens == 3
MaxRuns == 2
\* the widest area and the highest area laid out against
MaxWidth == 2
MaxHeight == 4

\* the graphemes: a narrow glyph, a wide glyph, a newline, and a grapheme of
\* no width (a control character such as a zero width space)
Tokens == {"n", "W", "\n", "z"}
\* token.width()
token_width(token) == CASE token = "n" -> 1 [] token = "W" -> 2 [] OTHER -> 0
\* token.chars().filter(|e| e == &'\n').count()
newlines(token) == IF token = "\n" THEN 1 ELSE 0

\* one token of CJKText::height with the wrapped token's width lost
height_token_WrapLosesToken(st, token, width) ==
    IF newlines(token) > 0
    THEN [result |-> IF st.acc = 0 /\ st.last_present
                     THEN st.result + newlines(token) - 1
                     ELSE st.result + newlines(token),
          acc |-> 0, last_present |-> FALSE]
    ELSE IF token_width(token) + st.acc > width
         THEN [result |-> st.result + 1, acc |-> 0, last_present |-> TRUE]
         ELSE [result |-> st.result, acc |-> st.acc + token_width(token),
               last_present |-> TRUE]

\* CJKText::height, the body of `for token in tokens`
height_token(st, token, width) ==
    IF newlines(token) > 0
    THEN [result |-> IF st.acc = 0 /\ st.last_present
                     THEN st.result + newlines(token) - 1
                     ELSE st.result + newlines(token),
          acc |-> 0, last_present |-> FALSE]
    ELSE IF token_width(token) + st.acc > width
         THEN [result |-> st.result + 1, acc |-> token_width(token),
               last_present |-> TRUE]
         ELSE [result |-> st.result, acc |-> st.acc + token_width(token),
               last_present |-> TRUE]

\* CJKText::height, `for token in tokens` from the i-th token of a run on
RECURSIVE height_tokens(_, _, _, _)
height_tokens(st, run, i, width) ==
    IF i > Len(run) THEN st
    ELSE height_tokens(height_token(st, run[i], width), run, i + 1, width)

\* CJKText::height, `for (text, _) in self.content.iter()` from the k-th run on
RECURSIVE height_runs(_, _, _, _)
height_runs(st, runs, k, width) ==
    IF k > Len(runs) THEN st
    ELSE height_runs(height_tokens([st EXCEPT !.last_present = TRUE], runs[k], 1, width),
                     runs, k + 1, width)

\* CJKText::height
height_of(runs, width) ==
    height_runs([result |-> 1, acc |-> 0, last_present |-> TRUE], runs, 1, width).result

\* CJKText::draw, the body of `for token in tokens`: the cursor, the cells
\* written, and whether draw has returned
draw_token(st, token, area) ==
    IF st.returned THEN st
    ELSE IF newlines(token) > 0
    THEN [st EXCEPT !.dy = IF st.dx = 0 /\ st.last_present
                           THEN @ + newlines(token) - 1 ELSE @ + newlines(token),
                    !.dx = 0, !.last_present = FALSE]
    ELSE LET wraps == token_width(token) + st.dx > area.width
             dx == IF wraps THEN 0 ELSE st.dx
             dy == IF wraps THEN st.dy + 1 ELSE st.dy
         IN  IF dy >= area.height
             THEN [st EXCEPT !.dx = dx, !.dy = dy, !.last_present = TRUE,
                             !.returned = TRUE]
             ELSE [st EXCEPT !.dx = dx + token_width(token), !.dy = dy,
                             !.last_present = TRUE,
                             !.cells = @ \cup {<<dx, dy>>}
                                         \cup {<<dx + i, dy>> : i \in 1 .. token_width(token) - 1}]

\* CJKText::draw, `for token in tokens` from the i-th token of a run on
RECURSIVE draw_tokens(_, _, _, _)
draw_tokens(st, run, i, area) ==
    IF i > Len(run) THEN st
    ELSE draw_tokens(draw_token(st, run[i], area), run, i + 1, area)

\* CJKText::draw, `for (text, style) in self.content.iter()` from the k-th run on
RECURSIVE draw_runs(_, _, _, _)
draw_runs(st, runs, k, area) ==
    IF k > Len(runs) THEN st
    ELSE draw_runs(draw_tokens([st EXCEPT !.last_present = TRUE], runs[k], 1, area),
                   runs, k + 1, area)

\* CJKText::draw into an area of the given width and height
draw_text(runs, area) ==
    draw_runs([dx |-> 0, dy |-> 0, last_present |-> TRUE, cells |-> {},
               returned |-> FALSE], runs, 1, area)

\* a CJKText with no run yet, neither measured nor drawn
Unlaid == [width |-> 0, height |-> 0, result |-> 0, dy |-> 0, cells |-> {},
           returned |-> FALSE]
CJKText_new == [content |-> <<>>, laid |-> FALSE, out |-> Unlaid]

RECURSIVE TokenCount(_)
TokenCount(runs) == IF runs = <<>> THEN 0 ELSE Len(runs[1]) + TokenCount(Tail(runs))

cjk_rest == <<cache, rt, last, widget, tabs, tab, command, pending, focus, filters, help,
              meaningless, click, stdin, terminal, pc, handled>>

\* CJKText::raw with one run more
cjk_run ==
    /\ Len(cjk.content) < MaxRuns
    /\ cjk' = [content |-> Append(cjk.content, <<>>), laid |-> FALSE, out |-> Unlaid]
    /\ UNCHANGED cjk_rest

\* the last run of the text with one token more
cjk_token(token) ==
    /\ Len(cjk.content) > 0
    /\ TokenCount(cjk.content) < MaxTokens
    /\ cjk' = [content |-> [cjk.content EXCEPT ![Len(cjk.content)] = Append(@, token)],
               laid |-> FALSE, out |-> Unlaid]
    /\ UNCHANGED cjk_rest

\* height(width) is asked for and the text is drawn into an area of that
\* width and of the given height
cjk_layout(w, h) ==
    /\ ~cjk.laid
    /\ LET drawn == draw_text(cjk.content, [width |-> w, height |-> h])
       IN  cjk' = [cjk EXCEPT !.laid = TRUE,
                              !.out = [width |-> w, height |-> h,
                                       result |-> height_of(cjk.content, w),
                                       dy |-> drawn.dy, cells |-> drawn.cells,
                                       returned |-> drawn.returned]]
    /\ UNCHANGED cjk_rest

(***************************************************************************)
(* Scroll::draw and Scroll::intercept (src/src/widgets.rs).  The viewport   *)
(* stands at the origin: a click's y is its row in the viewport, its x the  *)
(* content column or the column of the scrollbar.                           *)
(***************************************************************************)
Mul(a, b) ==
    [v |-> (a.v * b.v) % U16,
     overflow |-> a.overflow \/ b.overflow \/ a.v * b.v >= U16]

ScrollTo(pos) == [kind |-> "ScrollTo", arg |-> pos]
ScrollUp == [kind |-> "ScrollUp", arg |-> 0]
ScrollDown == [kind |-> "ScrollDown", arg |-> 0]
ScrollEvent_Sub(i) == [kind |-> "Sub", arg |-> i]

\* viewports the layout may hand down to a Scroll that is drawn and clicked
Views == [width : 0 .. MaxRows + 1, height : (0 .. MaxRows + 1) \cup {TallViewport + 1}]
Buttons == {"Left", "WheelUp", "WheelDown"}

\* `for i in 0..self.content.len()` of intercept, from child i on with y rows
\* still to go
RECURSIVE walk(_, _)
walk(i, y) ==
    IF i >= Len(content) THEN None
    ELSE LET h == height(content[i + 1], content_width.v)
         IN  IF h > y THEN Some(ScrollEvent_Sub(i)) ELSE walk(i + 1, y - h)

\* the ScrollTo of a click on the scrollbar at row pos
scroll_to(pos, h) ==
    IF pos = 0 THEN Val(0)
    ELSE LET last_row == Sub(Val(bound.height), Val(1))
         IN  IF pos >= last_row.v THEN After(Sub(h, Val(bound.height)), last_row)
             ELSE LET prod == Mul(Val(pos), Sub(h, Val(bound.height)))
                      left == Sub(Val(bound.height), Val(2))
                  IN  [v |-> prod.v \div left.v,
                       overflow |-> prod.overflow \/ left.overflow \/ last_row.overflow]

\* Outcomes, for an expression whose value is an Option
OptOutcomes(r) ==
    IF r.overflow
    THEN {[panic |-> TRUE, v |-> None], [panic |-> FALSE, v |-> r.v]}
    ELSE {[panic |-> FALSE, v |-> r.v]}

\* what intercept returns
intercept_ret(x, y, btn) ==
    CASE btn = "WheelUp" -> Val(Some(ScrollUp))
      [] btn = "WheelDown" -> Val(Some(ScrollDown))
      [] OTHER ->
            LET h == After(inner_height(content_width.v), content_width)
            IN  IF x = "bar"
                THEN IF h.v > bound.height
                     THEN LET to == scroll_to(y, h)
                          IN  [v |-> Some(ScrollTo(to.v)), overflow |-> to.overflow]
                     ELSE After(Val(None), h)
                ELSE LET row == After(Add(Val(y), Val(scroll)), h)
                     IN  [v |-> walk(0, row.v), overflow |-> row.overflow]

\* Scroll::intercept for a click the caller has found inside the viewport
Scroll_intercept(x, y, btn) ==
    /\ ~panicked
    /\ 0 <= y /\ y < bound.height
    /\ bound.width >= (IF x = "bar" THEN 1 ELSE 2)
    /\ \E out \in OptOutcomes(intercept_ret(x, y, btn)) :
          /\ panicked' = out.panic
          /\ last' = Did("intercept", [x |-> x, y |-> y, btn |-> btn], out.v,
                         FALSE, NoMsg, FALSE)
    /\ UNCHANGED <<content, bound, scroll, cache, rt, uistate>>

\* the child whose row draw writes at row y of the area, if it writes one:
\* `for comp`, `for iy in 0..height`, `if iy + dy < scroll { continue }`,
\* `y = iy + dy - scroll`
drawn_at(area, y) ==
    LET w == area.width - 1
        at == {c \in 0 .. Len(content) - 1 :
                 \E iy \in 0 .. height(content[c + 1], w) - 1 :
                    /\ iy + fold_height(c, w).v >= scroll
                    /\ iy + fold_height(c, w).v - scroll = y}
    IN  IF area.height < 1 \/ w < 2 \/ y >= area.height \/ at = {} THEN None
        ELSE Some(ScrollEvent_Sub(CHOOSE c \in at : TRUE))

\* `// Draw scroller`: the row pos of the thumb's top when the offset is s
\* (progress * vacant / (h - area.height) is computed in usize and cut to u16)
thumb(area, s) ==
    LET h == inner_height(area.width - 1)
        vacant == After(Sub(Val(area.height), Val(2)), h)
    IN  IF s = 0 THEN After(Val(0), vacant)
        ELSE IF s >= h.v - area.height THEN vacant
        ELSE After(Add(Val((((s - 1) * vacant.v) \div (h.v - area.height)) % U16), Val(1)), vacant)

\* what draw leaves of the scroller: no thumb when nothing is drawn or the
\* content fits
draw_ret(area) ==
    IF area.height < 1 THEN Val(None)
    ELSE LET w == Sub(Val(area.width), Val(1))
         IN  IF w.v < 2 THEN After(Val(None), w)
             ELSE IF inner_height(w.v).v > area.height
             THEN LET pos == After(thumb(area, scroll), w)
                  IN  [v |-> Some(pos.v), overflow |-> pos.overflow]
             ELSE After(After(Val(None), inner_height(w.v)), w)

\* Scroll::draw into the area that set_bound was given
Scroll_draw ==
    /\ ~panicked
    /\ \E out \in OptOutcomes(draw_ret(bound)) :
          /\ panicked' = out.panic
          /\ last' = Did("draw", NoKey, out.v, FALSE, NoMsg, FALSE)
    /\ UNCHANGED <<content, bound, scroll, cache, rt, uistate>>

(***************************************************************************)
(* The listener thread of kickoff_listener, the mutex it shares with       *)
(* UIState (stdin_lock) and the editor UIState::edit runs under that       *)
(* mutex.  The terminal is one queue of input both the listener and the    *)
(* editor read from.                                                       *)
(***************************************************************************)
MaxKeys == 3

\* what the terminal delivers: the key that makes reduce call edit, any
\* other key, and a sequence termion reports as Event::Unsupported
Inputs == {"edit", "key", "unsupported"}

Listener_new ==
    [tty |-> <<>>,            \* typed and not yet read by anyone
     typed |-> 0,
     chan |-> <<>>,           \* evtx/evrx
     lock |-> "free",         \* who holds stdin_lock
     reader |-> "read",       \* where the listener thread stands
     ev |-> "none",           \* the event the listener has read
     last_backoff |-> FALSE,  \* last_backoff.is_some()
     ui |-> "loop",           \* where the UI thread stands
     editor |-> <<>>]         \* what the editor has read

stdin_rest == <<cache, rt, last, widget, tabs, tab, command, pending, focus, filters, help,
                meaningless, click, cjk, terminal, pc, handled>>

\* the user types
type(input) ==
    /\ stdin.typed < MaxKeys
    /\ stdin' = [stdin EXCEPT !.tty = Append(@, input), !.typed = @ + 1]
    /\ UNCHANGED stdin_rest

\* `for ev in stdin.events()`: the blocking read returns the next input
listener_read ==
    /\ stdin.reader = "read"
    /\ stdin.tty # <<>>
    /\ stdin' = [stdin EXCEPT !.tty = Tail(@), !.ev = Head(stdin.tty), !.reader = "got"]
    /\ UNCHANGED stdin_rest

\* the body of the loop up to the mutex: within the backoff the event is
\* dropped and `continue` goes back to the read; a key or a mouse event is
\* sent, an unsupported sequence starts a backoff
listener_handle(within) ==
    /\ stdin.reader = "got"
    /\ within => stdin.last_backoff
    /\ stdin' = IF within
                THEN [stdin EXCEPT !.ev = "none", !.reader = "read"]
                ELSE IF stdin.ev = "unsupported"
                THEN [stdin EXCEPT !.last_backoff = TRUE, !.ev = "none", !.reader = "lock"]
                ELSE [stdin EXCEPT !.chan = Append(@, stdin.ev), !.ev = "none",
                                   !.reader = "lock"]
    /\ UNCHANGED stdin_rest

\* `{ let _guard = stdin_lock.lock().unwrap(); }`: taken ...
listener_lock ==
    /\ stdin.reader = "lock"
    /\ stdin.lock = "free"
    /\ stdin' = [stdin EXCEPT !.lock = "listener", !.reader = "unlock"]
    /\ UNCHANGED stdin_rest

\* ... and dropped at once
listener_unlock ==
    /\ stdin.reader = "unlock"
    /\ stdin' = [stdin EXCEPT !.lock = "free", !.reader = "read"]
    /\ UNCHANGED stdin_rest

\* the main loop receives an event and reduces it; the key that edits
\* brings the UI thread to the mutex of UIState::edit
ui_recv ==
    /\ stdin.ui = "loop"
    /\ stdin.chan # <<>>
    /\ stdin' = [stdin EXCEPT !.chan = Tail(@),
                              !.ui = IF Head(stdin.chan) = "edit" THEN "edit" ELSE "loop"]
    /\ UNCHANGED stdin_rest

\* UIState::edit takes the mutex and starts the editor
edit_lock ==
    /\ stdin.ui = "edit"
    /\ stdin.lock = "free"
    /\ stdin' = [stdin EXCEPT !.lock = "ui", !.ui = "editing"]
    /\ UNCHANGED stdin_rest

\* the editor reads the terminal
editor_read ==
    /\ stdin.ui = "editing"
    /\ stdin.tty # <<>>
    /\ stdin' = [stdin EXCEPT !.tty = Tail(@), !.editor = Append(@, Head(stdin.tty))]
    /\ UNCHANGED stdin_rest

\* the editor exits, status() returns and the guard is dropped
edit_done ==
    /\ stdin.ui = "editing"
    /\ stdin' = [stdin EXCEPT !.lock = "free", !.ui = "loop"]
    /\ UNCHANGED stdin_rest


InitUI ==
    /\ tabs = <<Collection, Search(<<>>)>>
    /\ tab = 0
    /\ command = Absent
    /\ pending = None
    /\ focus = FocusState_default
    /\ filters = [i \in 1 .. Len(SELECTS) |-> TRUE]
    /\ help = FALSE
    /\ meaningless = [last |-> FALSE, count |-> 0]
    /\ click = [last |-> None, interval |-> None]
    /\ cjk = CJKText_new
    /\ stdin = Listener_new
    /\ terminal = "new"
    /\ pc = "check"
    /\ handled = NoneHandled

(***************************************************************************)
(* UIState::reduce as a whole, and what it asks of the AppState.           *)
(***************************************************************************)
\* events without a binding that are followed by another event
MaxNoise == 0
\* the longest run of events the help hint is followed over
MaxRun == 4
HELP_THRESHOLD == 3

\* UIState::needs_help
needs_help == meaningless.count + 2 > HELP_THRESHOLD
\* the largest offset a render pass hands back after moving the viewport
MaxPassOffset == 1

\* AppState::publish_message
publish_message(msg) ==
    /\ last' = Did("publish_message", NoKey, NoRet, FALSE, msg, FALSE)
    /\ UNCHANGED <<cache, rt>>

\* The calls of one reduce, made on the AppState.  Only the last call of an
\* arm changes the AppState (an accessor called before it has answered
\* Direct), but for 'R' on a Subject tab, which discards two entries.
AppCalls(calls) ==
    IF calls = <<>> THEN UNCHANGED <<cache, rt, last>>
    ELSE LET c == calls[Len(calls)] IN
         CASE c.op = "fetch_collection" -> fetch_collection
           [] c.op = "update_progress" -> update_progress
           [] c.op = "fetch_collection_detail" -> fetch_collection_detail(c.arg)
           [] c.op = "update_collection_detail" -> update_collection_detail(c.arg.id)
           [] c.op = "fetch_search" -> fetch_search(c.arg)
           [] c.op = "refresh_collection" -> refresh_collection
           [] c.op = "refresh_search" -> refresh_search(c.arg)
           [] c.op = "refresh_collection_detail" ->
                /\ subject' = and_modify_discard(subject, c.arg)
                /\ collection_detail' = and_modify_discard(collection_detail, c.arg)
                /\ last' = Did("refresh_collection_detail", c.arg, NoRet, FALSE, NoMsg, FALSE)
                /\ UNCHANGED <<fetching_collection, collection, search, rt>>
           [] c.op = "publish_message" -> publish_message(c.arg)

\* the offsets of a tab's text the model follows, and the texts of a search
TabOffsets == (0 .. MaxPassOffset) \cup {ScrollEnd}
SearchTexts == {<<>>} \cup {<<k[1]>> : k \in SearchKeys}

\* every beginning of the given strings
Prefixes(lines) == UNION {{SubSeq(l, 1, n) : n \in 0 .. Len(l)} : l \in lines}

\* the tabs the model follows: at most MaxTabs, Subject tabs of the subjects
\* and SearchResult tabs of the searches the cache is modelled for
TabInModel(t) ==
    CASE t.kind = "Subject" -> t.id \in DetailIds \cap Ids /\ t.scroll \in TabOffsets
      [] t.kind = "SearchResult" ->
            /\ Len(t.search) = 1
            /\ search_key(t) \in SearchKeys
            /\ t.scroll \in TabOffsets
      [] t.kind = "Search" -> t.text \in SearchTexts
      [] OTHER -> TRUE

\* the states the model follows: the command line holds the beginning of one of
\* the lines typed, the rating buffer up to three digits, the search box a modelled search
InModel(r, lines) ==
    /\ Len(r.tabs) <= MaxTabs
    /\ \A i \in 1 .. Len(r.tabs) : TabInModel(r.tabs[i])
    /\ r.scroll \in TabOffsets
    /\ r.command.kind = "Command" => r.command.text \in Prefixes(lines)
    /\ r.command.kind = "EditRating" => Len(r.command.text) <= 3
    /\ r.command.kind = "SearchInput" => r.command.text \in SearchTexts

\* the layer of reduce that takes the event: the long command returns from
\* reduce on Esc and on what its arm matches, everything else goes on to the
\* normal dispatch
layer(ev) ==
    IF present(command) /\ (ev = Key("Esc") \/ long_matches(ev)) THEN "long"
    ELSE "normal"

\* the long command layer with the Esc arm lost
long_layer_NoEscArm(ev) == long_command(ev)

\* the long command layer: Esc first, then the arm of the active command
long_layer(ev) ==
    IF ev = Key("Esc") THEN [Same EXCEPT !.command = Absent]
    ELSE long_command(ev)

\* UIState::reduce: what it leaves of the UIState and the calls it makes
reduced(ev, outcome) ==
    IF layer(ev) = "long" THEN long_layer(ev) ELSE normal_dispatch(ev, outcome)

\* Duration::from_millis(300), and the milliseconds between two presses
DoubleClickMillis == 300
Elapsed == {DoubleClickMillis - 1, DoubleClickMillis}

\* update_click that keeps the interval when the press is on another cell
update_click_KeepsInterval(at, elapsed) ==
    [last |-> Some(at),
     interval |-> IF click.last.some /\ click.last.v[1] = at
                  THEN Some(elapsed) ELSE click.interval]

\* UIState::update_click; elapsed is now - i, the time since the press
\* last_click holds, which is looked at for a press on the same cell only
update_click(at, elapsed) ==
    [last |-> Some(at),
     interval |-> IF click.last.some
                  THEN IF click.last.v[1] = at THEN Some(elapsed) ELSE None
                  ELSE click.interval]

\* UIState::is_double_click
is_double_click ==
    click.interval.some /\ click.interval.v[1] < DoubleClickMillis

\* last_click and last_click_interval after the mouse arm of the normal dispatch
mouse_arm(ev, elapsed) ==
    IF ev.type = "Mouse" /\ ev.code = "Press" THEN update_click(ev.at, elapsed)
    ELSE IF ev.type = "Mouse" /\ ev.code = "Hold" THEN [last |-> None, interval |-> None]
    ELSE click

\* reduce in a loop that goes on receiving: no `break` after the event
reduce_NoBreak(ev, outcome, lines) ==
    /\ pc = "wait"
    /\ \E elapsed \in (IF ev.type = "Mouse" /\ ev.code = "Press" /\ click.last = Some(ev.at)
                       THEN Elapsed ELSE {0}) :
          /\ click' = IF layer(ev) = "normal" THEN mouse_arm(ev, elapsed) ELSE click
          /\ handled' = [ev |-> ev, mode |-> command.kind, by |-> layer(ev),
                          calls |-> reduced(ev, outcome).calls, elapsed |-> elapsed]
    /\ LET r == reduced(ev, outcome) IN
          /\ InModel(r, lines)
          /\ tabs' = r.tabs
          /\ tab' = r.tab
          /\ command' = r.command
          /\ pending' = r.pending
          /\ focus' = r.focus
          /\ filters' = r.filters
          /\ help' = r.help
          /\ scroll' = r.scroll
          /\ meaningless' = [last |-> r.noise,
                             count |-> IF meaningless.last
                                       THEN meaningless.count + 1 ELSE 0]
          /\ AppCalls(r.calls)
    /\ pc' = "wait"
    /\ UNCHANGED <<content, bound, panicked, cjk, stdin, terminal>>

\* the main loop has received ev and calls ui.reduce(ev, &mut app)
reduce(ev, outcome, lines) ==
    /\ pc = "wait"
    /\ \E elapsed \in (IF ev.type = "Mouse" /\ ev.code = "Press" /\ click.last = Some(ev.at)
                       THEN Elapsed ELSE {0}) :
          /\ click' = IF layer(ev) = "normal" THEN mouse_arm(ev, elapsed) ELSE click
          /\ handled' = [ev |-> ev, mode |-> command.kind, by |-> layer(ev),
                          calls |-> reduced(ev, outcome).calls, elapsed |-> elapsed]
    /\ LET r == reduced(ev, outcome) IN
          /\ InModel(r, lines)
          /\ tabs' = r.tabs
          /\ tab' = r.tab
          /\ command' = r.command
          /\ pending' = r.pending
          /\ focus' = r.focus
          /\ filters' = r.filters
          /\ help' = r.help
          /\ scroll' = r.scroll
          /\ meaningless' = [last |-> r.noise,
                             count |-> IF meaningless.last
                                       THEN meaningless.count + 1 ELSE 0]
          /\ AppCalls(r.calls)
    /\ pc' = "check"
    /\ UNCHANGED <<content, bound, panicked, cjk, stdin, terminal>>

(***************************************************************************)
(* The main loop of bootstrap (src/src/bin.rs): quit checks, one render    *)
(* pass, clear_pending, then the wait for an event or a notification.  A   *)
(* render pass resolves the pending click against what it draws.           *)
(***************************************************************************)
\* the pending click, if there is one
clicked == pending.some /\ pending.v[1].kind = "Click"
clicked_at(area) == clicked /\ pending.v[1].arg.at[1] = area

\* Tabber::intercept and the arm taken on its answer: tabs, tab and pending after
tabber_click ==
    LET i == pending.v[1].arg.at[2]
        btn == pending.v[1].arg.btn
        as_is == [tabs |-> tabs, tab |-> tab, pending |-> pending]
    IN  IF clicked_at("tabber") /\ i < Len(tabs)
        THEN CASE btn = "Left" -> [as_is EXCEPT !.tab = select_tab(i)]
               [] btn = "Middle" -> close_tab(i)
               [] OTHER -> as_is
        ELSE as_is

\* the offset a Scroll hands back once it is laid out in its viewport (0 when
\* the content fits), and after it has moved the viewport
LaidOut(s) == {0, s}
Moved == 0 .. MaxPassOffset

\* the offsets a pass may leave: laid out, then moved by ScrollIntoView or by a
\* click on the scrollbar
PassOffsets(s) ==
    IF (pending.some /\ pending.v[1].kind = "ScrollIntoView") \/ clicked_at("bar")
    THEN LaidOut(s) \cup Moved
    ELSE LaidOut(s)

\* ui.clear_pending() and where the loop goes on: `continue` or the wait
\* clear_pending that leaves what is pending
cleared_NoClear ==
    /\ pending' = pending
    /\ pc' = "wait"

cleared ==
    /\ pending' = None
    /\ pc' = IF pending.some THEN "check" ELSE "wait"

\* the loop breaks: Quit is pending or no tab is left
\* the quit checks without the one for an empty tab list
quit_NoEmptyCheck ==
    /\ pc = "check"
    /\ pending = Some(Quit)
    /\ pc' = "exited"
    /\ UNCHANGED <<tabs, tab, command, pending, focus, filters, help, meaningless, click, cjk, stdin, terminal,
                   handled, widget, cache, rt, last>>

quit ==
    /\ pc = "check"
    /\ pending = Some(Quit) \/ Len(tabs) = 0
    /\ pc' = "exited"
    /\ UNCHANGED <<tabs, tab, command, pending, focus, filters, help, meaningless, click, cjk, stdin, terminal,
                   handled, widget, cache, rt, last>>

\* the body of the Collection tab; a is what the Tabber has left
draw_collection(a, dbl, lines) ==
    LET ret == fetch_collection_ret
        coll == into(ret)
        i == pending.v[1].arg.at[2]
        toggled == IF clicked_at("filter") /\ i < Len(SELECTS)
                   THEN toggle_filter(i, coll)
                   ELSE [filters |-> filters, focus |-> focus]
        limited == set_limit(toggled.focus, Len(coll.v[1]))
        ents == do_filter(toggled.filters, coll)
        hit == clicked_at("content") /\ i < Len(ents)
        opens == hit /\ limited.focus = Some(i) /\ dbl
        opened == IF opens THEN goto_detail(coll.v[1][i + 1].id)
                  ELSE [tabs |-> a.tabs, tab |-> a.tab]
    IN  /\ fetch_collection
        /\ filters' = toggled.filters
        /\ IF ret.tag # "Direct"
           THEN /\ focus' = toggled.focus
                /\ tabs' = a.tabs
                /\ tab' = a.tab
                /\ cleared
                /\ UNCHANGED <<scroll, panicked>>
           ELSE IF limited.focus.some /\ limited.focus.v[1] >= Len(ents)
           \* ents[i].select(true) past the end of the filtered entries
           THEN /\ focus' = limited
                /\ tabs' = a.tabs
                /\ tab' = a.tab
                /\ panicked' = TRUE
                /\ pc' = "panicked"
                /\ UNCHANGED <<scroll, pending>>
           ELSE /\ focus' = IF hit /\ ~opens
                            THEN FocusState_set(limited, Some(i)) ELSE limited
                /\ InModel([Same EXCEPT !.tabs = opened.tabs], lines)
                /\ tabs' = opened.tabs
                /\ tab' = opened.tab
                /\ scroll' \in PassOffsets(scroll)
                /\ cleared
                /\ UNCHANGED panicked

\* the body of a SearchResult tab; a is what the Tabber has left
draw_search_result(a, dbl, lines) ==
    LET t == a.tabs[a.tab + 1]
        k == search_key(t)
        ret == fetch_search_ret(k)
        i == pending.v[1].arg.at[2]
        limited == set_limit(t.focus, Len(ret.val.list))
        hit == clicked_at("content") /\ i > 0 /\ i - 1 < Len(ret.val.list)
        opens == hit /\ limited.focus = Some(i - 1) /\ dbl
        focused == IF hit /\ ~opens THEN FocusState_set(limited, Some(i - 1))
                   ELSE limited
        id == search[k].val.ids[i]
    IN  /\ fetch_search(k)
        /\ IF ret.tag # "Direct"
           THEN tabs' = a.tabs /\ tab' = a.tab
           ELSE \E s \in PassOffsets(t.scroll) :
                  LET shown == [a.tabs EXCEPT ![a.tab + 1].focus = focused,
                                              ![a.tab + 1].scroll = s]
                  IN  IF ~opens THEN tabs' = shown /\ tab' = a.tab
                      ELSE /\ InModel([Same EXCEPT !.tabs = goto_detail(id).tabs], lines)
                           /\ tab' = goto_detail(id).tab
                           /\ tabs' = IF Len(goto_detail(id).tabs) = Len(tabs)
                                      THEN shown
                                      ELSE Insert(shown, goto_detail(id).tab,
                                                  Subject(id, 0))
        /\ cleared
        /\ UNCHANGED <<focus, filters, scroll, panicked>>

\* the render pass that never resets the terminal
reset_terminal_Never == FALSE

\* `if ui.pending == Some(PendingUIEvent::Reset)`: terminal.clear(),
\* hide_cursor() and resize(cursize) before terminal.draw
reset_terminal == pending = Some(Reset)

\* One render pass: the terminal reset if it is asked for, terminal.draw, then
\* ui.clear_pending().  A Subject tab asks
\* the AppState twice; its pass ends in draw_subject.
draw(dbl, lines) ==
    /\ pc = "check"
    /\ pending # Some(Quit)
    /\ Len(tabs) > 0
    /\ LET a == tabber_click
           t == a.tabs[a.tab + 1]
       IN  IF Len(a.tabs) = 0
           \* self.tabs.get_mut(self.tab).unwrap() with no tab left
           THEN /\ tabs' = a.tabs
                /\ tab' = a.tab
                /\ pending' = a.pending
                /\ panicked' = TRUE
                /\ pc' = "panicked"
                /\ UNCHANGED <<focus, filters, scroll, cache, rt, last>>
           ELSE CASE t.kind = "Collection" -> draw_collection(a, dbl, lines)
                  [] t.kind = "Search" ->
                        /\ tabs' = a.tabs
                        /\ tab' = a.tab
                        /\ cleared
                        /\ UNCHANGED <<focus, filters, scroll, panicked, cache, rt, last>>
                  [] t.kind = "Subject" ->
                        /\ tabs' = a.tabs
                        /\ tab' = a.tab
                        /\ fetch_collection_detail(t.id)
                        /\ pc' = IF fetch_collection_detail_ret(t.id).tag = "Direct"
                                 THEN "subject" ELSE "subject deferred"
                        /\ UNCHANGED <<pending, focus, filters, scroll, panicked>>
                  [] t.kind = "SearchResult" -> draw_search_result(a, dbl, lines)
    /\ handled' = NoneHandled
    /\ terminal' = IF reset_terminal THEN "reset" ELSE "drawn"
    /\ UNCHANGED <<command, help, meaningless, click, cjk, stdin, content, bound>>

\* the rest of a Subject tab's pass: app.fetch_subject(id), the text laid out
\* if both answers are there, then ui.clear_pending()
draw_subject ==
    /\ pc \in {"subject", "subject deferred"}
    /\ fetch_subject(active_tab.id)
    /\ \E s \in (IF pc = "subject" /\ subject[active_tab.id].tag = "Fetched"
                 THEN LaidOut(active_tab.scroll) ELSE {active_tab.scroll}) :
          tabs' = [tabs EXCEPT ![tab + 1].scroll = s]
    /\ cleared
    /\ UNCHANGED <<tab, command, focus, filters, help, meaningless, click, cjk, stdin, terminal, handled, widget>>

\* the wait ends without an event: a notification of the AppState, or the
\* terminal has changed its size
wake ==
    /\ pc = "wait"
    /\ pc' = "check"
    /\ UNCHANGED <<tabs, tab, command, pending, focus, filters, help, meaningless, click, cjk, stdin, terminal,
                   handled, widget, cache, rt, last>>

\* what a render pass shows and writes
uiview == <<tabs, tab, command, pending, focus, filters, help, handled, widget>>
vars == <<fetching_collection, collection, collection_detail, subject, search,
          rt, last, content, bound, scroll, panicked, tabs, tab, command,
          pending, focus, filters, help, meaningless, click, cjk, stdin, terminal, pc, handled>>

Init == InitCache /\ InitScroll /\ InitUI

Next ==
    \/ fetch_collection /\ UNCHANGED <<widget, uistate>>
    \/ \E resp \in CollectionValues : collection_done(resp) /\ UNCHANGED <<widget, uistate>>
    \/ update_progress /\ UNCHANGED <<widget, uistate>>
    \/ progress_done /\ UNCHANGED <<widget, uistate>>
    \/ \E id \in DetailIds : fetch_collection_detail(id) /\ UNCHANGED <<widget, uistate>>
    \/ \E id \in DetailIds, resp \in DetailValues : collection_detail_done(id, resp) /\ UNCHANGED <<widget, uistate>>
    \/ \E id \in DetailIds : update_collection_detail(id) /\ UNCHANGED <<widget, uistate>>
    \/ \E id \in DetailIds : update_collection_detail_done(id) /\ UNCHANGED <<widget, uistate>>
    \/ \E id \in Ids : fetch_subject(id) /\ UNCHANGED <<widget, uistate>>
    \/ \E id \in Ids, resp \in SubjectValues : subject_done(id, resp) /\ UNCHANGED <<widget, uistate>>
    \/ \E k \in SearchKeys : fetch_search(k) /\ UNCHANGED <<widget, uistate>>
    \/ \E k \in SearchKeys, resp \in SearchResponses : search_done(k, resp) /\ UNCHANGED <<widget, uistate>>
    \/ \E t \in Tasks : task_failed(t) /\ UNCHANGED <<widget, uistate>>
    \/ refresh_collection /\ UNCHANGED <<widget, uistate>>
    \/ \E k \in SearchKeys : refresh_search(k) /\ UNCHANGED <<widget, uistate>>
    \/ \E id \in Ids : refresh_subject(id) /\ UNCHANGED <<widget, uistate>>
    \/ \E id \in DetailIds : refresh_collection_detail(id) /\ UNCHANGED <<widget, uistate>>

Spec == Init /\ [][Next]_vars

NextScroll ==
    \/ Scroll_with
    \/ \E comp \in ChildRows : push(comp)
    \/ \E area \in Rects : set_bound(area)
    \/ cap_bound
    \/ \E index \in 0 .. MaxChildren : scroll_into_view(index)
    \/ \E s \in Offsets : set(s)
    \/ \E d \in {-1, 1} : delta(d)

SpecScroll == Init /\ [][NextScroll]_vars

\* A Scroll that is filled, bounded, drawn and clicked, at every offset
\* ScrollState::set may be given and cap_bound leaves.
NextView ==
    \/ Scroll_with
    \/ \E comp \in ChildRows : push(comp)
    \/ \E area \in Views : set_bound(area)
    \/ cap_bound
    \/ \E s \in Offsets : set(s)
    \/ Scroll_draw
    \/ \E x \in {"content", "bar"}, btn \in Buttons :
          \E y \in (0 .. MaxRows) \cup {bound.height - 1} : Scroll_intercept(x, y, btn)

SpecView == Init /\ [][NextView]_vars

\* FocusState on its own: its four methods called in any order
NextFocus ==
    \/ \E f \in FocusArgs : focus_set(f)
    \/ \E limit \in Limits : focus_set_limit(limit)
    \/ focus_next
    \/ focus_prev

SpecFocus == Init /\ [][NextFocus]_vars

(***************************************************************************)
(* The user interface: the main loop with the events of one way of using   *)
(* it, and the futures of the AppState that come back meanwhile.           *)
(***************************************************************************)
\* the main loop with the events and the command lines of one way of using
\* the program; the editor, when it is started, leaves one of the outcomes
main_loop(events, lines, outcomes) ==
    \/ quit
    \/ draw(is_double_click, lines)
    \/ wake
    \/ \E ev \in events, outcome \in outcomes :
          /\ meaningless.last => meaningless.count < MaxNoise
          /\ reduce(ev, outcome, lines)

\* Long commands: every one of them is entered, on the Collection tab, on the
\* Search tab and on the Subject tab of a focused entry, and is left again.
LongLines == {<<"e">>}
LongEvents ==
    {Key(c) : c \in {"g", ":", "t", "e", "r", "s", "j", "\n", "Esc", "Ctrl-q"}}
        \cup {Mouse("Press", "Left", <<"none", 0>>), Mouse("Hold", "-", <<"none", 0>>),
              Mouse("Release", "-", <<"none", 0>>)}

NextLong ==
    \/ main_loop(LongEvents, LongLines, {"same"})
    \/ draw_subject
    \/ \E resp \in CollectionValues : collection_done(resp) /\ UNCHANGED <<widget, uistate>>
    \/ collection_detail_done(1, "Some") /\ UNCHANGED <<widget, uistate>>

SpecLong == Init /\ [][NextLong]_vars

\* Progress: an entry of the collection is focused with j and k and its
\* progress is stepped with + and -; the collection is fetched again after
\* each update.
ProgressEvents == {Key(c) : c \in {"j", "k", "+", "-", "Ctrl-q"}}

NextProgress ==
    \/ main_loop(ProgressEvents, {}, {"same"})
    \/ \E resp \in CollectionValues : collection_done(resp) /\ UNCHANGED <<widget, uistate>>
    \/ progress_done /\ UNCHANGED <<widget, uistate>>

SpecProgress == Init /\ [][NextProgress]_vars

\* Rating: the detail of the first entry is opened with j and Enter, its
\* rating is edited with r, digits and Backspace and committed with Enter;
\* the line x, which is no command, is committed on the command line.
RatingLines == {<<"x">>}
RatingEvents ==
    {Key(c) : c \in {"j", "\n", "r", "0", "1", "5", "Backspace", "Ctrl-q", ":", "x"}}

NextRating ==
    \/ main_loop(RatingEvents, RatingLines, {"same"})
    \/ draw_subject
    \/ \E resp \in CollectionValues : collection_done(resp) /\ UNCHANGED <<widget, uistate>>
    \/ collection_detail_done(1, "Some") /\ UNCHANGED <<widget, uistate>>
    \/ update_collection_detail_done(1) /\ UNCHANGED <<widget, uistate>>
    \/ \E resp \in SubjectValues : subject_done(1, resp) /\ UNCHANGED <<widget, uistate>>

SpecRating == Init /\ [][NextRating]_vars

\* The rating buffer: as Rating, with every digit key and with a stored rating
\* of any of 0 .. 10.
BufferEvents ==
    {Key(c) : c \in {"j", "\n", "r", "Backspace", "Ctrl-q"}
                      \cup {Digits[i] : i \in 1 .. Len(Digits)}}

NextBuffer ==
    \/ main_loop(BufferEvents, {}, {"same"})
    \/ draw_subject
    \/ \E resp \in CollectionValues : collection_done(resp) /\ UNCHANGED <<widget, uistate>>
    \/ \E n \in 1 .. Len(Rated) :
          collection_detail_done(1, Rated[n]) /\ UNCHANGED <<widget, uistate>>
    \/ update_collection_detail_done(1) /\ UNCHANGED <<widget, uistate>>

SpecBuffer == Init /\ [][NextBuffer]_vars

\* Jumping: a Subject tab is opened and scrolled with j, k and G while its
\* subject is loading and after it has loaded.
JumpEvents == {Key(c) : c \in {"j", "k", "G", "\n", "Ctrl-q"}}

NextJump ==
    \/ main_loop(JumpEvents, {}, {"same"})
    \/ draw_subject
    \/ \E resp \in CollectionValues : collection_done(resp) /\ UNCHANGED <<widget, uistate>>
    \/ \E resp \in SubjectValues : subject_done(1, resp) /\ UNCHANGED <<widget, uistate>>

SpecJump == Init /\ [][NextJump]_vars

\* The status editor: s on a Subject tab whose detail is absent or has any of
\* the five statuses, then Tab, Enter and other keys.
StatusEvents == {Key(c) : c \in {"j", "\n", "s", "\t", "Backspace", "Ctrl-q"}}

NextStatus ==
    \/ main_loop(StatusEvents, {}, {"same"})
    \/ draw_subject
    \/ \E resp \in CollectionValues : collection_done(resp) /\ UNCHANGED <<widget, uistate>>
    \/ \E resp \in Statuses \cup {"None"} :
          collection_detail_done(1, resp) /\ UNCHANGED <<widget, uistate>>
    \/ update_collection_detail_done(1) /\ UNCHANGED <<widget, uistate>>

SpecStatus == Init /\ [][NextStatus]_vars

\* Closing: tabs are closed with :q, the active tab is changed with Tab.
QuitLines == {<<"q">>}
QuitEvents == {Key(c) : c \in {":", "q", "\n", "\t"}}

NextQuit ==
    \/ main_loop(QuitEvents, QuitLines, {"same"})
    \/ \E resp \in CollectionValues : collection_done(resp) /\ UNCHANGED <<widget, uistate>>

SpecQuit == Init /\ [][NextQuit]_vars

\* Moving: tabs are opened with :tabe coll, moved with :tabm n and the active
\* tab is changed with Tab; command lines that are no command are committed too.
MoveLines ==
    { <<"t", "a", "b", "e", " ", "c", "o", "l", "l">>,
      <<"t", "a", "b", "m", " ", "0">>, <<"t", "a", "b", "m", " ", "1">>,
      <<"t", "a", "b", "m", " ", "2">>, <<"t", "a", "b", "m", " ", "9">>,
      <<"t", "a", "b", "m", " ", "x">>, <<"t", "a", "b", "m", " ">>, <<"x">> }
MoveEvents ==
    {Key(c) : c \in {":", "\n", "\t", "Ctrl-q", "t", "a", "b", "e", "m", " ",
                      "c", "o", "l", "0", "1", "2", "9", "x"}}

NextMove ==
    \/ main_loop(MoveEvents, MoveLines, {"same"})
    \/ \E resp \in CollectionValues : collection_done(resp) /\ UNCHANGED <<widget, uistate>>

SpecMove == Init /\ [][NextMove]_vars

\* Help hint: keys without a binding (x) and with one (j, k) in runs of up to
\* MaxRun events that count.
HelpEvents == {Key(c) : c \in {"x", "j", "k", "Ctrl-q"}}

NextHelp ==
    \/ quit
    \/ draw(is_double_click, {})
    \/ wake
    \/ \E ev \in HelpEvents : meaningless.count < MaxRun /\ reduce(ev, "same", {})
    \/ \E resp \in CollectionValues : collection_done(resp) /\ UNCHANGED <<widget, uistate>>

SpecHelp == Init /\ [][NextHelp]_vars

\* Clicks: presses on two cells outside every widget, holds and releases,
\* with a key in between.
Cells == {<<"none", 0>>, <<"none", 1>>}
ClickEvents ==
    {Mouse("Press", "Left", c) : c \in Cells}
        \cup {Mouse("Hold", "-", c) : c \in Cells}
        \cup {Mouse("Release", "-", <<"none", 0>>), Key("j"), Key("Ctrl-q")}

NextClick ==
    \/ main_loop(ClickEvents, {}, {"same"})
    \/ \E resp \in CollectionValues : collection_done(resp) /\ UNCHANGED <<widget, uistate>>

SpecClick == Init /\ [][NextClick]_vars

\* Passes: every signal reduce leaves for the render pass is produced:
\* ScrollIntoView by j, KBTabSelect by :q, Click by a press, Reset
\* by the editor started with t on the Subject tab Enter has opened; :q on
\* the last tab and Ctrl-q end the loop.
PassLines == {<<"q">>}
PassEvents ==
    {Key(c) : c \in {"j", "t", "\n", ":", "q", "Ctrl-q"}}
        \cup {Mouse("Press", "Left", <<"none", 0>>)}

NextPass ==
    \/ main_loop(PassEvents, PassLines, {"same"})
    \/ draw_subject
    \/ \E resp \in CollectionValues : collection_done(resp) /\ UNCHANGED <<widget, uistate>>
    \/ collection_detail_done(1, "Some") /\ UNCHANGED <<widget, uistate>>

SpecPass == Init /\ [][NextPass]_vars

\* Editing: the detail of the first entry is opened with j and Enter, its
\* tags and its comment are edited with t and c, and the editor ends in each
\* of its ways.
EditEvents == {Key(c) : c \in {"j", "\n", "t", "c", "Ctrl-q"}}

NextEdit ==
    \/ main_loop(EditEvents, {}, EditorOutcomes)
    \/ draw_subject
    \/ \E resp \in CollectionValues : collection_done(resp) /\ UNCHANGED <<widget, uistate>>
    \/ collection_detail_done(1, "Some") /\ UNCHANGED <<widget, uistate>>
    \/ update_collection_detail_done(1) /\ UNCHANGED <<widget, uistate>>

SpecEdit == Init /\ [][NextEdit]_vars

\* Closing by the mouse: tabs are selected with the left button and closed
\* with the middle button on the Tabber, down to the last one.
CloseEvents ==
    {Mouse("Press", btn, <<"tabber", i>>) : btn \in {"Left", "Middle"}, i \in 0 .. 1}
        \cup {Key("j"), Key("\n"), Key("Ctrl-q")}

NextClose ==
    \/ main_loop(CloseEvents, {}, {"same"})
    \/ draw_subject
    \/ \E resp \in CollectionValues : collection_done(resp) /\ UNCHANGED <<widget, uistate>>

SpecClose == Init /\ [][NextClose]_vars

\* Filtering: the focus is moved over the collection with j, k, G and g g
\* and the filters are toggled with t and a digit, 4 being no filter.
FilterEvents == {Key(c) : c \in {"j", "k", "G", "g", "t", "1", "2", "4", "Ctrl-q"}}

NextFilter ==
    \/ main_loop(FilterEvents, {}, {"same"})
    \/ \E resp \in CollectionValues : collection_done(resp) /\ UNCHANGED <<widget, uistate>>

SpecFilter == Init /\ [][NextFilter]_vars

\* Texts: every text of up to MaxRuns runs and MaxTokens tokens, measured and
\* drawn for every width and height of the area.
NextText ==
    \/ cjk_run
    \/ \E token \in Tokens : cjk_token(token)
    \/ \E w \in 0 .. MaxWidth, h \in 0 .. MaxHeight : cjk_layout(w, h)

SpecText == Init /\ [][NextText]_vars

\* The terminal: up to MaxKeys inputs typed at any moment, the listener
\* thread, the main loop receiving what it sends, and the editor.
NextEditor ==
    \/ \E input \in Inputs : type(input)
    \/ listener_read
    \/ \E within \in BOOLEAN : listener_handle(within)
    \/ listener_lock
    \/ listener_unlock
    \/ ui_recv
    \/ edit_lock
    \/ editor_read
    \/ edit_done

SpecEditor == Init /\ [][NextEditor]_vars

\* The tab methods of UIState on their own, called in any order on a tab
\* list that is not empty, as reduce and the render pass call them: a tab is
\* opened for `tabe`, replaced by a SearchResult, and a Subject tab comes from
\* goto_detail alone.
NewTabs == {Collection, Search(<<>>)}
Results == {SearchResult(<<"q">>, 0, 0, FocusState_default)}

tab_op(op, arg, after) ==
    /\ Len(tabs) > 0
    /\ Len(after.tabs) <= MaxTabs
    /\ tabs' = after.tabs
    /\ tab' = after.tab
    /\ last' = Did(op, arg, NoRet, FALSE, NoMsg, FALSE)

tab_rotate ==
    /\ tab_op("rotate_tab", NoKey, [tabs |-> tabs, tab |-> rotate_tab])
    /\ UNCHANGED <<command, pending, focus, filters, help, meaningless, click, cjk, stdin, terminal, pc,
                   handled, widget, cache, rt>>

tab_rotate_rev ==
    /\ tab_op("rotate_tab_rev", NoKey, [tabs |-> tabs, tab |-> rotate_tab_rev])
    /\ UNCHANGED <<command, pending, focus, filters, help, meaningless, click, cjk, stdin, terminal, pc,
                   handled, widget, cache, rt>>

tab_select(i) ==
    /\ tab_op("select_tab", i, [tabs |-> tabs, tab |-> select_tab(i)])
    /\ UNCHANGED <<command, pending, focus, filters, help, meaningless, click, cjk, stdin, terminal, pc,
                   handled, widget, cache, rt>>

tab_open(new) ==
    /\ tab_op("open_tab", new, open_tab(new))
    /\ UNCHANGED <<command, pending, focus, filters, help, meaningless, click, cjk, stdin, terminal, pc,
                   handled, widget, cache, rt>>

tab_replace(new) ==
    /\ tab_op("replace_tab", new, [tabs |-> replace_tab(new), tab |-> tab])
    /\ UNCHANGED <<command, pending, focus, filters, help, meaningless, click, cjk, stdin, terminal, pc,
                   handled, widget, cache, rt>>

tab_move(n) ==
    /\ tab_op("move_tab", n, move_tab(n))
    /\ UNCHANGED <<command, pending, focus, filters, help, meaningless, click, cjk, stdin, terminal, pc,
                   handled, widget, cache, rt>>

tab_close(i) ==
    /\ tab_op("close_tab", i, close_tab(i))
    /\ pending' = close_tab(i).pending
    /\ UNCHANGED <<command, focus, filters, help, meaningless, click, cjk, stdin, terminal, pc, handled,
                   widget, cache, rt>>

tab_goto_detail(id) ==
    /\ tab_op("goto_detail", id, goto_detail(id))
    /\ UNCHANGED <<command, pending, focus, filters, help, meaningless, click, cjk, stdin, terminal, pc,
                   handled, widget, cache, rt>>

NextTabs ==
    \/ tab_rotate
    \/ tab_rotate_rev
    \/ \E i \in 0 .. MaxTabs : tab_select(i)
    \/ \E new \in NewTabs : tab_open(new)
    \/ \E new \in Results : tab_replace(new)
    \/ \E n \in 0 .. MaxTabs + 1 : tab_move(n)
    \/ \E i \in 0 .. MaxTabs : tab_close(i)
    \/ \E id \in Ids : tab_goto_detail(id)

SpecTabs == Init /\ [][NextTabs]_vars

(***************************************************************************)
(* Reading the cache as the claims do.                                     *)
(***************************************************************************)
AccessorOps == {"fetch_collection", "fetch_collection_detail", "fetch_subject", "fetch_search"}

\* the cache entry an accessor call reads, in the current state
EntryOf(op, key) ==
    CASE op = "fetch_collection" -> collection
      [] op = "fetch_collection_detail" -> collection_detail[key]
      [] op = "fetch_subject" -> subject[key]
      [] op = "fetch_search" -> search[key]

\* the future an accessor call spawns
FetchTask(op, key) ==
    CASE op = "fetch_collection" -> Task("collection", NoKey)
      [] op = "fetch_collection_detail" -> Task("collection_detail", key)
      [] op = "fetch_subject" -> Task("subject", key)
      [] op = "fetch_search" -> Task("search", key)

FetchTasks ==
    {Task("collection", NoKey)}
        \cup {Task("collection_detail", id) : id \in DetailIds}
        \cup {Task("subject", id) : id \in Ids}
        \cup {Task("search", k) : k \in SearchKeys}

\* C1: when an accessor spawned a task for a key and the very next operation is
\* the same accessor for the same key (no completion, no refresh in between),
\* that second call spawns nothing and returns Deferred.
C1_SecondCallDeferred ==
    [][(/\ last'.op \in AccessorOps
        /\ last.op = last'.op
        /\ last.key = last'.key
        /\ last.spawned)
         => (~last'.spawned /\ last'.ret = Deferred)]_vars

\* the keyed entry a completion writes, before (unprimed) the completion
DoneEntry(op, key) ==
    CASE op = "collection_detail_done" -> collection_detail[key]
      [] op = "subject_done" -> subject[key]
      [] op = "search_done" -> search[key]

\* C2: a completion of a fetch task writes Fetched into its entry only if the
\* entry is still Fetching; an entry that was discarded in the meantime is left
\* as it is.
C2_CompletionOnlyIfFetching ==
    [][last'.op \in {"collection_detail_done", "subject_done", "search_done"}
         => DoneEntry(last'.op, last'.key).tag = "Fetching"]_vars

\* C3: at most one fetch task per cache key is in flight.
C3_OneFetchPerKey == \A t \in FetchTasks : rt[t] <= 1

\* C4: when a fetch task of a keyed entry fails, an error message is appended
\* and the entry of its key ends up Discarded, so that the next accessor call
\* spawns again.  (fetch_collection's entry is left aside: its first call never
\* writes Fetching.)
C4_FailureDiscards ==
    (last.op = "task_failed" /\ last.key \in FetchTasks /\ last.key.op # "collection")
        => /\ last.pushed = "request failed"
           /\ LET e == CASE last.key.op = "collection_detail" -> collection_detail[last.key.key]
                         [] last.key.op = "subject" -> subject[last.key.key]
                         [] last.key.op = "search" -> search[last.key.key]
              IN e.tag = "Discarded"

\* C6: whenever an accessor has just returned Deferred, a task fetching the
\* requested entry is in flight.
C6_DeferredMeansInFlight ==
    (last.op \in AccessorOps /\ last.ret = Deferred)
        => rt[FetchTask(last.op, last.key)] > 0


\* what the three accessors other than fetch_search return for a Fetched entry
\* and do not do
ReturnsStored(op, key) ==
    /\ ~last'.spawned
    /\ last'.pushed = NoMsg
    /\ UNCHANGED <<cache, rt>>
    /\ op # "fetch_search" => last'.ret = Direct(EntryOf(op, key).val)

Refreshes(id) == last'.op = "refresh_subject" /\ last'.key = id
SearchFills(id) ==
    /\ last'.op = "search_done"
    /\ \E i \in 1..Len(search'[last'.key].val.ids) : search'[last'.key].val.ids[i] = id

\* the three parts of C7 for one step: the entry becomes Fetched only when a
\* subject task of id completes; fetch_subject(id) returns Deferred until then
\* and Direct(the stored value) after; once Fetched with no further subject
\* task of id in flight, the entry stays as it is.
SubjectScenario(id) ==
    /\ (subject[id].tag # "Fetched" /\ subject'[id].tag = "Fetched")
         => (last'.op = "subject_done" /\ last'.key = id)
    /\ (last'.op = "fetch_subject" /\ last'.key = id)
         => last'.ret = IF subject[id].tag = "Fetched" THEN Direct(subject[id].val)
                        ELSE Deferred
    /\ (subject[id].tag = "Fetched" /\ rt[Task("subject", id)] = 0)
         => (subject'[id] = subject[id] /\ rt'[Task("subject", id)] = 0)

\* C7 as stated: with no refresh of id intervening, fetch_subject(id) returns
\* Deferred until the subject task of id completes and Direct with one and the
\* same value afterwards.
C7_DeferredThenSameDirect ==
    [][\A id \in Ids : ~Refreshes(id) => SubjectScenario(id)]_vars

\* C7 as amended: the same, with no refresh of id and no completion of a search
\* that lists id intervening.
C7_DeferredThenSameDirectNoSearch ==
    [][\A id \in Ids : (~Refreshes(id) /\ ~SearchFills(id)) => SubjectScenario(id)]_vars

\* fetch_subject has just returned Direct for an id no search has filled in
C7_Witness ==
    /\ last.op = "fetch_subject"
    /\ last.ret.tag = "Direct"
    /\ \A k \in SearchKeys : search[k].tag = "Vacant"

\* C8 as stated: right after update_progress the collection entry, and right
\* after update_collection_detail(id) the entry collection_detail[id], no longer
\* holds the value fetched before the mutation.
C8_DiscardAtCall ==
    /\ last.op = "update_progress" => collection.tag # "Fetched"
    /\ last.op = "update_collection_detail" => collection_detail[last.key].tag # "Fetched"

\* C8 as amended: neither call changes a cache entry; update_progress's request
\* sets the collection entry to Discarded when it completes successfully, and
\* update_collection_detail's stores the answer as Fetched in
\* collection_detail[id] when it completes successfully.
C8_DiscardAtCompletion ==
    [][/\ last'.op \in {"update_progress", "update_collection_detail"}
            => (UNCHANGED cache /\ last'.spawned)
       /\ last'.op = "progress_done"
            => (collection' = Discarded /\ UNCHANGED <<collection_detail, subject, search>>)
       /\ last'.op = "update_collection_detail_done"
            => /\ collection_detail'[last'.key].tag = "Fetched"
               /\ \A id \in DetailIds \ {last'.key} : collection_detail'[id] = collection_detail[id]
               /\ UNCHANGED <<collection, subject, search>>]_vars

\* update_progress has just been called with a fetched collection in the cache
C8_Witness ==
    /\ last.op = "update_progress"
    /\ collection.tag = "Fetched"

(***************************************************************************)
(* Reading the Scroll as the claims do: rows are counted in unbounded      *)
(* integers.                                                               *)
(***************************************************************************)
\* rows of the first n children at the width the Scroll lays them out in
RECURSIVE Rows(_)
Rows(n) ==
    IF n = 0 THEN 0 ELSE Rows(n - 1) + height(content[n], content_width.v)

\* max(0, inner_height - viewport_height)
MaxScroll ==
    IF inner_height(content_width.v).v > bound.height
    THEN inner_height(content_width.v).v - bound.height
    ELSE 0

\* C9: whatever the children's heights, the viewport's height and the offset
\* before, once set_bound and cap_bound have run on a Scroll whose viewport is
\* at least one column wide, the offset is between 0 and
\* max(0, inner_height - viewport_height).
C9_OffsetWithinBound ==
    (last.op = "cap_bound" /\ ~panicked /\ bound.width > 0)
        => (0 <= scroll /\ scroll <= MaxScroll)

\* C10: for every child i that is no taller than the viewport and every offset
\* before, after scroll_into_view(i) the rows [start, end) of child i lie
\* inside [offset, offset + viewport_height).
C10_ChildInView ==
    \A i \in 0 .. MaxChildren - 1 :
        (/\ last.op = "scroll_into_view"
         /\ last.key = i
         /\ ~panicked
         /\ i < Len(content)
         /\ height(content[i + 1], content_width.v) <= bound.height)
        => (scroll <= Rows(i) /\ Rows(i + 1) <= scroll + bound.height)

\* scroll_into_view(1) has moved the viewport down to the last row of a second
\* child that fits in it
C10_Witness ==
    /\ last.op = "scroll_into_view"
    /\ last.key = 1
    /\ ~panicked
    /\ Len(content) = 2
    /\ 0 < height(content[2], content_width.v)
    /\ height(content[2], content_width.v) <= bound.height
    /\ scroll > 0
    /\ Rows(2) = scroll + bound.height


(***************************************************************************)
(* FocusState.                                                             *)
(***************************************************************************)
FocusOps == {"FocusState::set", "FocusState::set_limit", "FocusState::next",
             "FocusState::prev"}

\* the index of a FocusState is None or below its limit
WithinLimit(fs) == fs.focus.some => fs.focus.v[1] < fs.limit

\* C11: set, set_limit, next and prev leave the focused index None or below
\* the limit, and set_limit(n) on an index that is n or more leaves n - 1 if
\* n > 0 and None if n = 0.
C11_FocusWithinLimit ==
    WithinLimit(focus) /\
    [][last'.op \in FocusOps =>
        /\ WithinLimit(focus')
        /\ (last'.op = "FocusState::set_limit" /\ focus.focus.some
                /\ focus.focus.v[1] >= last'.key)
            => /\ focus'.limit = last'.key
               /\ focus'.focus = IF last'.key > 0 THEN Some(last'.key - 1) ELSE None]_vars

\* set_limit has shrunk the list below a focused index, which now stands on
\* the last entry left
C11_Witness ==
    /\ last.op = "FocusState::set_limit"
    /\ last.key = 2
    /\ focus = [focus |-> Some(1), limit |-> 2]

(***************************************************************************)
(* The tabs.                                                               *)
(***************************************************************************)
TabOps == {"rotate_tab", "rotate_tab_rev", "select_tab", "open_tab", "replace_tab",
           "move_tab", "close_tab", "goto_detail"}

\* C12: after any sequence of the tab methods the reducer and the click
\* resolution call, a tab list that is not empty has its active index inside it:
\* tab < tabs.len().
C12_ActiveTabExists == Len(tabs) > 0 => (tab >= 0 /\ tab < Len(tabs))

\* the last of three tabs was active and has been closed: the tab before it is
\* the active one
C12_Witness ==
    /\ last.op = "close_tab"
    /\ last.key = 2
    /\ Len(tabs) = 2
    /\ tab = 1

\* the Subject tabs of one subject
SubjectTabs(id) == {i \in 1 .. Len(tabs) : subject_id(tabs[i]) = Some(id)}

\* C13: no two Subject tabs show the same subject, and goto_detail(id) with a
\* Subject tab of id open makes that tab the active one and leaves the number of
\* tabs as it is.
C13_OneTabPerSubject ==
    (\A id \in Ids : Cardinality(SubjectTabs(id)) <= 1) /\
    [][\A id \in Ids :
        (last'.op = "goto_detail" /\ last'.key = id /\ SubjectTabs(id) # {})
            => /\ tabs' = tabs
               /\ tab' + 1 \in SubjectTabs(id)]_vars

\* goto_detail has gone back to the Subject tab of subject 1, which was open
\* and not active
C13_Witness ==
    /\ last.op = "goto_detail"
    /\ last.key = 1
    /\ Len(tabs) = 3
    /\ SubjectTabs(1) = {tab + 1}
    /\ SubjectTabs(2) # {}

(***************************************************************************)
(* Long commands.                                                          *)
(***************************************************************************)
\* the step is ui.reduce(ev, &mut app)
Reduces(ev) == pc = "wait" /\ pc' = "check" /\ handled'.ev = ev

\* the step is a call of ui.reduce
Reduced == pc = "wait" /\ pc' = "check" /\ handled'.ev # NoEvent

\* C14: in every long command an Esc key sets the command to Absent and
\* changes nothing else: tabs, active tab, focus, scroll offsets, filters, the
\* pending signal and the help switch stay, and nothing is asked of the cache.
C14_EscOnlyCancels ==
    [][(present(command) /\ Reduces(Key("Esc")))
        => /\ command' = Absent
           /\ UNCHANGED <<tabs, tab, focus, scroll, filters, pending, help>>
           /\ handled'.calls = <<>>
           /\ UNCHANGED <<cache, rt, last>>]_vars

\* Esc has cancelled the rating editor on a Subject tab
C14_Witness ==
    /\ handled.ev = Key("Esc")
    /\ handled.mode = "EditRating"
    /\ command = Absent
    /\ active_tab.kind = "Subject"
    /\ focus.focus.some

\* C15 as stated: while a long command is active every event, key or pointer,
\* is handled by the long command and none reaches the normal dispatch.
C15_LongCommandTakesAll ==
    [][(present(command) /\ Reduced) => handled'.by = "long"]_vars

\* C15 as the code has it: while a long command is active every key event is
\* handled by the long command; a pointer event goes on to the normal dispatch,
\* which leaves the command as it is and, for a press or a hold, sets the
\* pending click.
C15_LongCommandTakesKeys ==
    [][(present(command) /\ Reduced)
        => LET ev == handled'.ev
           IN  /\ ev.type = "Key" => handled'.by = "long"
               /\ ev.type = "Mouse"
                    => /\ handled'.by = "normal"
                       /\ command' = command
                       /\ ev.code = "Press" => pending' = Some(Click(ev.at, ev.btn))
                       /\ ev.code = "Hold" => pending' = Some(Click(ev.at, "Left"))
                       /\ ev.code = "Release" => pending' = pending]_vars

\* a press of the pointer while the command line is open: the click is
\* pending, the command line is still open
C15_Witness ==
    /\ handled.ev.type = "Mouse"
    /\ handled.ev.code = "Press"
    /\ handled.mode = "Command"
    /\ handled.by = "normal"
    /\ command.kind = "Command"
    /\ pending.some

\* the entry '+' and '-' act on: the focus-th entry of the filtered collection
Target == Nth(do_filter(filters, into(fetch_collection_ret)), focus.focus.v[1])
EntryFocused ==
    /\ ~present(command) /\ Len(tabs) > 0 /\ active_tab.kind = "Collection"
    /\ focus.focus.some /\ Target.some
\* status + 1 capped at the known total, status - 1 floored at 0
Stepped(status, count, up) ==
    IF up THEN IF count.some /\ count.v[1] <= status THEN count.v[1] ELSE status + 1
    ELSE IF status = 0 THEN 0 ELSE status - 1
ProgressOf(t, up) ==
    IF t.subject_type = "Book"
    THEN [id |-> t.id, ep |-> None, vol |-> Some(Stepped(t.vol_status, t.vols_count, up))]
    ELSE [id |-> t.id, ep |-> Some(Stepped(t.ep_status, t.eps_count, up)), vol |-> None]
Updates(calls) == SelectSeq(calls, LAMBDA c : c.op = "update_progress")

\* C16: with an entry of the Collection tab focused, '+' (resp. '-') issues
\* exactly one update_progress, for that entry, whose counter is the entry's
\* status + 1 capped at the known total (resp. - 1 floored at 0): the episodes
\* with vol = None for an entry that is no Book, the volumes with ep = None
\* for a Book.
C16_StepIssuesOneUpdate ==
    [][\A up \in BOOLEAN :
         (EntryFocused /\ Reduces(Key(IF up THEN "+" ELSE "-")))
            => /\ Updates(handled'.calls) = <<Call("update_progress", ProgressOf(Target.v[1], up))>>
               /\ last'.op = "update_progress" /\ last'.spawned]_vars
\* '+' on the anime at 12 of 12 episodes has issued update_progress(ep = 12, vol = None)
C16_Witness ==
    /\ handled.ev = Key("+")
    /\ Updates(handled.calls) =
          <<Call("update_progress", [id |-> 4, ep |-> Some(12), vol |-> None])>>
    /\ rt[Task("progress", NoKey)] > 0

\* the number a buffer of the rating editor spells, if it spells one
RatingOf(text) == parse(text, 255)
RatingUpdate(c, n) ==
    Call("update_collection_detail",
         [id |-> c.id, status |-> c.coll.status,
          original |-> Some([c.coll EXCEPT !.rating = IF n > 10 THEN 10 ELSE n])])
Editing == command.kind = "EditRating"

\* C17 as stated: in the rating editor every typed digit is appended to the
\* buffer, and Enter issues an update with the buffer's number clamped to 10
\* (buffer "7", then "5", then Enter: rating 10).
C17_DigitsAppended ==
    [][/\ \A d \in {"0", "1", "5"} :
            (Editing /\ Reduces(Key(d))) => command'.text = Append(command.text, d)
       /\ (Editing /\ RatingOf(command.text).some /\ Reduces(Key("\n")))
            => handled'.calls = <<RatingUpdate(command, RatingOf(command.text).v[1])>>]_vars

\* C17: in the rating editor a typed digit is appended only to an empty buffer,
\* or as the 0 after "1"; it replaces the buffer "0"; any other buffer ignores
\* it, so the buffer never spells more than 10.  Enter leaves the editor and
\* issues one update with the buffer's number, if it spells one other than
\* the stored rating, and nothing otherwise (buffer "7" of a rating 7, then
\* "5", then Enter: the buffer stays "7" and no update is issued).
C17_DigitsWithinTen ==
    [][/\ \A d \in {"0", "1", "5"} :
            (Editing /\ Reduces(Key(d))) =>
                /\ command'.kind = "EditRating"
                /\ command'.text \in {command.text, Append(command.text, d), <<d>>}
                /\ (command'.text = Append(command.text, d)) <=>
                        (command.text = <<>> \/ (command.text = <<"1">> /\ d = "0"))
                /\ (command.text = <<"0">>) => command'.text = <<d>>
                /\ RatingOf(command'.text).some /\ RatingOf(command'.text).v[1] <= 10
                /\ handled'.calls = <<>>
       /\ (Editing /\ Reduces(Key("\n"))) =>
                /\ command' = Absent
                /\ handled'.calls =
                      IF RatingOf(command.text).some
                         /\ RatingOf(command.text).v[1] # command.coll.rating
                      THEN <<RatingUpdate(command, RatingOf(command.text).v[1])>>
                      ELSE <<>>]_vars
\* "5" was typed into the buffer "7" and the buffer is still "7"
C17_Witness ==
    /\ handled.ev = Key("5") /\ handled.mode = "EditRating"
    /\ Editing /\ command.text = <<"7">> /\ command.coll.rating = 7

Commits(line) == command = Command(line) /\ Reduces(Key("\n"))

\* C18: committing `q` on the command line closes the active tab and no other;
\* once no tab is left, the loop's next step is its exit: it is taken at the
\* check at the loop's head, before any render pass.
C18_QClosesActiveTab ==
    /\ [][Commits(<<"q">>) => tabs' = Remove(tabs, tab) /\ command' = Absent]_vars
    /\ [][(Len(tabs) = 0 /\ <<pc, uiview>>' # <<pc, uiview>>)
            => pc = "check" /\ pc' = "exited" /\ UNCHANGED <<uiview, cache, rt, last>>]_vars
    /\ []((Len(tabs) = 0 /\ pc = "check") => ENABLED quit)
\* `q` was committed on the last tab and the loop has ended
C18_Witness ==
    /\ pc = "exited" /\ tabs = <<>>
    /\ handled.ev = Key("\n") /\ handled.mode = "Command"
    /\ pending = Some(KBTabSelect)

\* the command line `tabm n`
Tabm(n) == <<"t", "a", "b", "m", " ">> \o to_string(n)
MoveArgs == {0, 1, 2, 9}
\* the active tab is at index `at` afterwards and still active, and the other
\* tabs are in the order they were in
MovedTo(at) ==
    /\ tab' = at
    /\ Len(tabs') = Len(tabs)
    /\ tabs'[at + 1] = tabs[tab + 1]
    /\ Remove(tabs', at) = Remove(tabs, tab)
LastIndex == Len(tabs) - 1

\* C19 as stated: committing `tabm n` leaves the active tab at index n, n
\* clamped to the last index, still active, the other tabs in their order.
C19_MovesToIndexN ==
    [][\A n \in MoveArgs :
          Commits(Tabm(n)) => MovedTo(IF n > LastIndex THEN LastIndex ELSE n)]_vars

\* C19: committing `tabm n` leaves the active tab, still active, before the
\* tab that was at index n: at index n if n is at most its own index, at
\* index n - 1 if n is greater (n clamped to the number of tabs, so that a
\* large n makes it the last tab); the other tabs keep their order.
C19_MovesBeforeTabN ==
    [][\A n \in MoveArgs :
          Commits(Tabm(n)) =>
              LET dest == IF n > Len(tabs) THEN Len(tabs) ELSE n
              IN  /\ MovedTo(IF dest > tab THEN dest - 1 ELSE dest)
                  /\ command' = Absent
                  /\ handled'.calls = <<>>]_vars
\* a `tabm` was committed with three tabs open, and the active tab is the
\* Search tab, now the first
C19_Witness ==
    /\ handled.ev = Key("\n") /\ handled.mode = "Command" /\ handled.calls = <<>>
    /\ pending = Some(KBTabSelect)
    /\ Len(tabs) = 3 /\ tab = 0 /\ tabs[1].kind = "Search"

\* the command lines reduce knows
KnownLines ==
    { <<"q", "a">>, <<"q">>, <<"h", "e", "l", "p">>,
      <<"t", "a", "b", "e", " ", "s", "e", "a", "r", "c", "h">>,
      <<"t", "a", "b", "e", " ", "c", "o", "l", "l">> }
IsTabm(line) == starts_with(line, <<"t", "a", "b", "m", " ">>)
\* input that is committed and is malformed: a line that is no command, a
\* `tabm` whose argument is no number, a rating buffer that is no number
UnknownLine == command.kind = "Command" /\ command.text \notin KnownLines /\ ~IsTabm(command.text)
BadTabm ==
    /\ command.kind = "Command" /\ IsTabm(command.text)
    /\ ~parse(SubSeq(command.text, 6, Len(command.text)), UsizeMax).some
BadRating == command.kind = "EditRating" /\ ~RatingOf(command.text).some
Rejected ==
    /\ Len(handled'.calls) = 1 /\ handled'.calls[1].op = "publish_message"
    /\ last'.op = "publish_message" /\ last'.pushed # NoMsg
    /\ command' = Absent
    /\ UNCHANGED <<tabs, tab, cache, rt>>

\* C20: committing malformed input in a long command (a command line that is
\* no command, a `tabm` argument that is no number, a rating buffer that is
\* no number) appends a status message, resets the command to Absent and
\* leaves the tabs and the cache as they are, with no update issued.
C20_MalformedIsRejected ==
    [][((UnknownLine \/ BadTabm \/ BadRating) /\ Reduces(Key("\n"))) => Rejected]_vars
\* the part of C20 that is about the command line
C20_MalformedLineIsRejected ==
    [][((UnknownLine \/ BadTabm) /\ Reduces(Key("\n"))) => Rejected]_vars
\* the rating buffer was emptied and committed: the editor is closed and
\* nothing was published
C20_SilentRating ==
    /\ handled.ev = Key("\n") /\ handled.mode = "EditRating"
    /\ handled.calls = <<>> /\ command = Absent
    /\ last.op # "publish_message"

\* the event reduced by this step has a binding
Meaningful == Reduced /\ ~meaningless'.last

\* C21: needs_help() is false immediately after any event that matches a
\* binding (the count of events without one is reset on that event), and is
\* true only after a run of more than HELP_THRESHOLD - 2 such events.
C21_HelpResetsOnBinding ==
    [][/\ Meaningful => ~needs_help'
       /\ (Reduced /\ needs_help') => (meaningless.last /\ meaningless'.last)]_vars
\* two keys without a binding and then j: the hint is up after j
C21_HintAfterBinding ==
    /\ handled.ev = Key("j") /\ ~meaningless.last /\ meaningless.count = 2
    /\ needs_help

Press(c) == Mouse("Press", "Left", c)
Hold(c) == Mouse("Hold", "-", c)

\* C22: last_click holds the cell of the last press unless a Hold has come
\* since (a press stores its cell, a Hold empties it, no other event touches
\* it); after a press is_double_click() is true exactly when last_click held
\* the same cell and less than 300 ms have passed since that press; after a
\* Hold it is false, and so it is after the press that follows the Hold.
C22_DoubleClick ==
    [][/\ \A c \in Cells :
            /\ Reduces(Press(c)) =>
                  /\ click'.last = Some(c)
                  /\ is_double_click' <=>
                        (click.last = Some(c) /\ handled'.elapsed < DoubleClickMillis)
            /\ Reduces(Hold(c)) => click'.last = None /\ ~is_double_click'
            /\ (click.last = None /\ Reduces(Press(c))) => ~is_double_click'
       /\ (Reduced /\ handled'.ev.type # "Mouse") => click' = click
       /\ ~Reduced => click' = click]_vars
\* a second press on the same cell after 299 ms: a double click
C22_Witness ==
    /\ handled.ev = Press(<<"none", 1>>) /\ handled.elapsed = DoubleClickMillis - 1
    /\ is_double_click
    /\ click.last = Some(<<"none", 1>>)

\* the text laid out: its tokens, run after run
RECURSIVE Flat(_)
Flat(runs) == IF runs = <<>> THEN <<>> ELSE runs[1] \o Flat(Tail(runs))
\* a text of narrow glyphs, wide glyphs and newlines
Plain == \A i \in 1 .. Len(Flat(cjk.content)) : Flat(cjk.content)[i] \in {"n", "W", "\n"}
EndsInGlyph ==
    Flat(cjk.content) # <<>> /\ Flat(cjk.content)[Len(Flat(cjk.content))] # "\n"
\* the visual rows draw has written: the rows down to the last one with a
\* cell written (blank rows above it are rows of the text)
RowsWritten ==
    IF cjk.out.cells = {} THEN 0
    ELSE 1 + CHOOSE r \in 0 .. MaxHeight + 1 :
                /\ \E c \in cjk.out.cells : c[2] = r
                /\ \A c \in cjk.out.cells : c[2] <= r
\* laid out against a width of at least 1 in an area high enough
LaidInFull == cjk.laid /\ cjk.out.width >= 1 /\ cjk.out.height >= cjk.out.result

\* C23 as stated: for every text of narrow glyphs, wide glyphs and newlines,
\* the empty text and texts ending in a newline included, and every width
\* from 1 on, height(w) is the number of rows draw writes into an area of
\* that width that is high enough.
C23_HeightIsRowsWritten ==
    (LaidInFull /\ Plain) => cjk.out.result = RowsWritten

\* C23: height(w) is the row the cursor of draw ends on, plus one, and draw
\* is not cut short in an area of that height; it is the number of rows
\* written if the text ends in a glyph, and more than that if the text is
\* empty or ends in a newline (the rows of the trailing newlines, or the one
\* row of an empty text, are counted by height and no cell is written there).
C23_HeightIsCursorRow ==
    (LaidInFull /\ Plain) =>
        /\ ~cjk.out.returned
        /\ cjk.out.result = cjk.out.dy + 1
        /\ EndsInGlyph => cjk.out.result = RowsWritten
        /\ ~EndsInGlyph => cjk.out.result > RowsWritten
\* "n", newline: height 2, one row written
C23_Witness ==
    /\ LaidInFull /\ cjk.content = << <<"n", "\n">> >>
    /\ cjk.out.result = 2 /\ RowsWritten = 1

\* C30: CJKText::draw writes no cell outside its area: none on a row at or
\* below the area's height, and neither a glyph nor the second cell of a
\* wide glyph in a column at or beyond the area's width, areas of width 0
\* and 1 included.
C30_DrawnInsideArea ==
    cjk.laid => \A c \in cjk.out.cells : c[1] < cjk.out.width /\ c[2] < cjk.out.height
\* the part of C30 about the rows
C30_DrawnAboveBottom ==
    cjk.laid => \A c \in cjk.out.cells : c[2] < cjk.out.height
\* a wide glyph drawn into an area one column wide: its second cell is in column 1
C30_WideGlyphOverhangs ==
    /\ cjk.laid /\ cjk.content = << <<"W">> >> /\ cjk.out.width = 1
    /\ <<1, 1>> \in cjk.out.cells
\* C24: while the editor runs, that is while the UI thread holds stdin_lock,
\* the listener thread reads nothing from the terminal.
C24_ListenerIdleWhileEditing ==
    [][stdin.ui = "editing" => ~(stdin.reader = "read" /\ stdin'.reader = "got")]_vars

\* What the mutex does give: the listener never passes the mutex while the
\* editor runs, so each read it makes in that time is one it had begun
\* before, or one that follows a dropped event.
C24_ListenerStopsAtLock ==
    [][stdin.ui = "editing" => ~(stdin.reader = "lock" /\ stdin'.reader = "unlock")]_vars

\* the listener has taken an input from the terminal while the editor ran
C24_InputStolen == stdin.ui = "editing" /\ stdin.reader = "got" /\ stdin.lock = "ui"

\* the loop has taken a step (not a future of the AppState coming back)
LoopStep == <<pc, uiview>>' # <<pc, uiview>>
\* an event has been reduced and no render pass has begun since
Unrendered == handled.ev # NoEvent

\* C25: between two render passes the loop reduces at most one input event:
\* an event is reduced only when none has been reduced since the last pass,
\* and once one is reduced the loop's next step is a render pass or the exit.
C25_OneEventPerPass ==
    /\ [][pc = "wait" /\ Unrendered' => ~Unrendered /\ pc' = "check"]_vars
    /\ [][Unrendered /\ LoopStep => pc = "check" /\ (~Unrendered' \/ pc' = "exited")]_vars

\* an event is reduced after others have been reduced and rendered
C25_Witness == Unrendered /\ pc = "check" /\ Len(tabs) = 3

\* one of the signals reduce leaves for the render pass is pending
Signal == pending.some /\ pending.v[1].kind \in {"Click", "ScrollIntoView", "KBTabSelect", "Reset"}
\* the render pass under way goes on, ends by clearing what is pending (and
\* one more pass follows), or panics
PassSteps ==
    \/ pc = "check" /\ pc' \in {"subject", "subject deferred"} /\ pending' = pending
    \/ pending' = None /\ pc' = "check"
    \/ pc' = "panicked"

\* C26 as stated: every signal reduce has produced is pending during the
\* next render pass and during no other, and is cleared before another event
\* is reduced.
C26_SignalSeenByOnePass ==
    /\ [](pc = "wait" => pending = None)
    /\ [][Signal /\ LoopStep => PassSteps]_vars

\* C26: a signal is pending during the next render pass and during no other,
\* and nothing is pending when an event is reduced; but when reduce has left
\* no tab the loop ends and no render pass sees the signal.
C26_SignalSeenByNextPass ==
    /\ [](pc = "wait" => pending = None)
    /\ [][Signal /\ LoopStep =>
            \/ PassSteps
            \/ Len(tabs) = 0 /\ pc' = "exited" /\ pending' = pending]_vars

\* the editor has left Reset pending and the pass of the Subject tab that
\* sees it is under way
C26_Witness == pending = Some(Reset) /\ pc = "subject" /\ ~Unrendered

\* the loop has ended with a signal no render pass has seen
C26_SignalDropped == Signal /\ pc = "exited" /\ Unrendered

\* scroll_into_view(i) has returned for a child i taller than the viewport
TallChildCalled(i) ==
    /\ last.op = "scroll_into_view"
    /\ last.key = i
    /\ ~panicked
    /\ i < Len(content)
    /\ height(content[i + 1], content_width.v) > bound.height

\* C28: for every child i taller than the viewport and every offset before,
\* after scroll_into_view(i) the offset is the start row of child i.
C28_TallChildTopAligned ==
    \A i \in 0 .. MaxChildren - 1 : TallChildCalled(i) => scroll = Rows(i)

\* What scroll_into_view does leave for such a child: its first row at the
\* top of the viewport, or its last row at the bottom.
C28_TallChildAtAnEdge ==
    \A i \in 0 .. MaxChildren - 1 :
        TallChildCalled(i) => scroll \in {Rows(i), Rows(i + 1) - bound.height}

\* a child of two rows in a viewport of one row, shown from its second row on
C28_TallChildBottomAligned ==
    /\ TallChildCalled(0)
    /\ bound = [width |-> 2, height |-> 1]
    /\ height(content[1], content_width.v) = 2
    /\ scroll = 1

\* the child whose rows [start, end) hold row r of the content, if one does
ChildAt(r) ==
    LET at == {i \in 0 .. Len(content) - 1 : Rows(i) <= r /\ r < Rows(i + 1)}
    IN  IF at = {} THEN None ELSE Some(ScrollEvent_Sub(CHOOSE i \in at : TRUE))

\* intercept has been called for a click in the content column
ContentClick == last.op = "intercept" /\ last.key.x = "content" /\ last.key.btn = "Left"

\* C27: for a click in the content column at row y of the viewport, with the
\* offset o, intercept returns Sub(i) for the child i whose rows hold row
\* y + o, which is the child draw has put at row y, and None when y + o is
\* at or past the end of the content.
C27_InterceptFindsDrawnChild ==
    ContentClick =>
        /\ ~panicked
        /\ last.ret = ChildAt(last.key.y + scroll)
        /\ last.ret = drawn_at(bound, last.key.y)

\* What holds: while y + o fits in u16 intercept returns the child whose rows
\* hold row y + o, and in a viewport of three columns or more, where draw
\* draws the children, that is the child drawn at row y.
C27_InterceptFindsChild ==
    (ContentClick /\ last.key.y + scroll < U16) =>
        /\ ~panicked
        /\ last.ret = ChildAt(last.key.y + scroll)
        /\ bound.width >= 3 => last.ret = drawn_at(bound, last.key.y)

\* a click below the content, at a row where y + o is 65536, is answered
\* with the first child
C27_ClickWraps ==
    /\ ContentClick
    /\ ~panicked
    /\ bound.width >= 3
    /\ last.key.y + scroll = U16
    /\ last.ret = Some(ScrollEvent_Sub(0))
    /\ drawn_at(bound, last.key.y) = None

\* a click in a viewport of two columns, where draw draws nothing, is
\* answered with a child
C27_ClickOnUndrawn ==
    /\ ContentClick
    /\ bound.width = 2
    /\ last.ret.some
    /\ drawn_at(bound, last.key.y) = None

\* draw has drawn the scroller of content that overflows the viewport
Overflowing ==
    /\ bound.height >= 1
    /\ bound.width >= 3
    /\ inner_height(bound.width - 1).v > bound.height
\* the offsets of the model within [0, inner_height - viewport_height]
Within == {s \in 0 .. MaxOffset : s <= inner_height(bound.width - 1).v - bound.height}
              \cup {inner_height(bound.width - 1).v - bound.height}

\* C29: when the content overflows a viewport of H >= 1 rows, draw finds the
\* thumb's top row without underflow, and for every offset in
\* [0, inner_height - H] the row lies in [0, H - 2], is 0 at offset 0 and
\* H - 2 at the largest offset, and does not decrease as the offset grows.
C29_ThumbWithinTrack ==
    Overflowing =>
        /\ (last.op = "draw" /\ scroll \in Within) => ~panicked
        /\ \A s \in Within :
              /\ ~thumb(bound, s).overflow
              /\ 0 <= thumb(bound, s).v /\ thumb(bound, s).v <= bound.height - 2
        /\ thumb(bound, 0).v = 0
        /\ thumb(bound, inner_height(bound.width - 1).v - bound.height).v = bound.height - 2
        /\ \A s, t \in Within : s <= t => thumb(bound, s).v <= thumb(bound, t).v

\* What holds: in a viewport of three rows or more.
C29_ThumbWithinTallTrack ==
    (Overflowing /\ bound.height >= 3) =>
        /\ (last.op = "draw" /\ scroll \in Within) => ~panicked
        /\ \A s \in Within :
              /\ ~thumb(bound, s).overflow
              /\ 0 <= thumb(bound, s).v /\ thumb(bound, s).v <= bound.height - 2
        /\ thumb(bound, 0).v = 0
        /\ thumb(bound, inner_height(bound.width - 1).v - bound.height).v = bound.height - 2
        /\ \A s, t \in Within : s <= t => thumb(bound, s).v <= thumb(bound, t).v

\* draw has panicked on `area.height - 2` in a viewport of one row
C29_ThumbUnderflows ==
    /\ last.op = "draw"
    /\ panicked
    /\ Overflowing
    /\ bound.height = 1

\* in a viewport of two rows the thumb of an offset between the ends is put
\* on row 1, below the row of the largest offset
C29_ThumbLeavesTrack ==
    /\ last.op = "draw"
    /\ ~panicked
    /\ Overflowing
    /\ bound.height = 2
    /\ last.ret = Some(1)

\* once Quit is pending the loop's only step is the exit, with nothing drawn
\* and nothing reduced
QuitEndsLoop ==
    [][(pending = Some(Quit) /\ LoopStep)
          => (pc = "check" /\ pc' = "exited" /\ UNCHANGED <<uiview, cache, rt, last>>)]_vars

\* C31: in every state of the user interface, a long command active or not,
\* a Ctrl-q key leaves Quit pending, and the loop then ends without a render
\* pass and without reducing another event.
C31_CtrlQQuits ==
    /\ [][Reduces(Key("Ctrl-q")) => pending' = Some(Quit)]_vars
    /\ QuitEndsLoop

\* What holds: Ctrl-q outside a long command.
C31_CtrlQQuitsWhenAbsent ==
    /\ [][(Reduces(Key("Ctrl-q")) /\ command = Absent) => pending' = Some(Quit)]_vars
    /\ QuitEndsLoop

\* Ctrl-q has been reduced with the command line open: nothing is pending
\* and the command line is still open
C31_CtrlQSwallowed ==
    /\ handled.ev = Key("Ctrl-q")
    /\ handled.mode = "Command"
    /\ pending = None
    /\ command.kind = "Command"

\* the step is a reduce that calls UIState::edit: t or c on a Subject tab
\* whose collection detail is there
Edits ==
    /\ Reduced
    /\ handled'.by = "normal"
    /\ handled'.ev \in {Key("t"), Key("c")}
    /\ is_subject
    /\ fetch_collection_detail_ret(active_tab.id).tag = "Direct"
    /\ fetch_collection_detail_ret(active_tab.id).val # "None"

\* C32: every call of the editor leaves Reset pending, however the editor
\* ends, and the render pass that follows resets the terminal before it
\* draws.
C32_EditorResetsTerminal ==
    /\ [][Edits => pending' = Some(Reset)]_vars
    /\ [][(pending = Some(Reset) /\ pc = "check" /\ LoopStep) => terminal' = "reset"]_vars
    /\ [](pending = Some(Reset) => pc \in {"check", "subject", "subject deferred"})

\* the editor has returned, Reset is pending, and the pass of the Subject
\* tab has reset the terminal and is drawing
C32_Witness ==
    /\ terminal = "reset"
    /\ pc = "subject"
    /\ pending = Some(Reset)

\* the editor could not be started: the message is published and Reset is
\* pending all the same
C32_EditorNotFound ==
    /\ handled.ev = Key("t")
    /\ last.op = "publish_message" /\ last.pushed = "no editor"
    /\ pending = Some(Reset)

\* C33: active_tab() and active_tab_mut() are never evaluated with no tab
\* left or with the active index outside the tab list: the unwrap in them
\* never panics.
C33_ActiveTabExists == ~(pc = "panicked" /\ (Len(tabs) = 0 \/ tab >= Len(tabs)))

\* What holds: reduce never runs with no tab left.
C33_ReduceHasATab == [][Reduced => (Len(tabs) > 0 /\ tab < Len(tabs))]_vars

\* the render pass has closed the last tab on a middle click and has
\* panicked in active_tab_mut, Quit pending
C33_PassPanics == pc = "panicked" /\ Len(tabs) = 0 /\ pending = Some(Quit)

\* a render pass of the Collection tab is about to begin and the collection
\* is there
CollectionRenders ==
    /\ pc = "check"
    /\ Len(tabs) > 0
    /\ pending # Some(Quit)
    /\ is_collection
    /\ fetch_collection_ret.tag = "Direct"
\* the focus the pass selects an entry by, after set_limit(collection.len())
FocusAtRender == set_limit(focus, Len(into(fetch_collection_ret).v[1])).focus
\* the entries the pass shows
Shown == do_filter(filters, into(fetch_collection_ret))

\* C34: whenever the Collection tab is rendered with the focus Some(i), i is
\* an index into the list of entries do_filter leaves.
C34_FocusInFilteredList ==
    (CollectionRenders /\ FocusAtRender.some) => FocusAtRender.v[1] < Len(Shown)

\* What holds: with every filter on (and no entry of a type outside SELECTS).
C34_FocusInUnfilteredList ==
    (CollectionRenders /\ FocusAtRender.some /\ \A i \in 1 .. Len(SELECTS) : filters[i])
        => FocusAtRender.v[1] < Len(Shown)

\* the pass has panicked in ents[i].select(true) with a filter off
C34_SelectPanics ==
    /\ pc = "panicked"
    /\ Len(tabs) > 0 /\ is_collection
    /\ ~filters[1]
    /\ focus.focus.some /\ focus.focus.v[1] >= Len(Shown)


(***************************************************************************)
(* Closing a tab that is not the active one.                               *)
(***************************************************************************)

\* a close_tab(i) step for an existing tab i other than the active one
ClosesOther(i) ==
    /\ last'.op = "close_tab"
    /\ last'.key = i
    /\ Len(tabs') = Len(tabs) - 1
    /\ i < Len(tabs)
    /\ i # tab

\* C35: close_tab(i) for an existing tab i different from the active tab
\* leaves active the tab that was active before, wherever i lies relative to
\* the active index.
C35_ActiveTabKept ==
    [][\A i \in 0 .. MaxTabs :
          (tab_close(i) /\ ClosesOther(i)) => tabs'[tab' + 1] = tabs[tab + 1]]_vars

\* the same for a tab closed to the right of the active one, or to its left
\* while the active tab is the last
C35_ActiveTabKeptRightOrLast ==
    [][\A i \in 0 .. MaxTabs :
          (tab_close(i) /\ ClosesOther(i) /\ (i > tab \/ tab = Len(tabs) - 1))
              => tabs'[tab' + 1] = tabs[tab + 1]]_vars

\* a tab closed to the left of an active tab that is not the last: the index
\* stays and designates the right neighbour of the tab that was active
C35_ActiveTabShifts ==
    [][\A i \in 0 .. MaxTabs :
          (tab_close(i) /\ ClosesOther(i) /\ i < tab /\ tab < Len(tabs) - 1)
              => (tab' = tab /\ tabs'[tab' + 1] = tabs[tab + 2])]_vars



(***************************************************************************)
(* Toggling a filter.                                                      *)
(***************************************************************************)

\* the subject id of the entry a focus designates in the filtered list
Designated(fs, fl, entries) ==
    IF fs.focus.some /\ Nth(do_filter(fl, entries), fs.focus.v[1]).some
    THEN Some(Nth(do_filter(fl, entries), fs.focus.v[1]).v[1].id)
    ELSE None

\* the entry with this subject id is in the filtered list
Visible(id, fl, entries) ==
    \E k \in 1 .. Len(do_filter(fl, entries)) : do_filter(fl, entries)[k].id = id

\* the keys of the Toggle command that call toggle_filter
ToggleKeys == {"1", "2", "3", "4", "5", "6", "7", "8", "9"}

RatingForms == {to_string(n) : n \in 0 .. 10}

\* the calls an Enter in the rating editor may make: none, or one update of
\* the edited subject with a rating of 0 .. 10 other than the stored one
RatingUpdates(calls) ==
    \/ calls = <<>>
    \/ /\ Len(calls) = 1
       /\ calls[1].op = "update_collection_detail"
       /\ calls[1].arg.id = command.id
       /\ calls[1].arg.original.some
       /\ calls[1].arg.original.v[1].rating \in (0 .. 10) \ {command.coll.rating}

\* C37: the rating editor opened on a stored rating of 0 .. 10 keeps its
\* buffer, through digit and Backspace keys, empty or the decimal form
\* without leading zero of an integer 0 .. 10; an update issued on Enter
\* carries a rating in 0 .. 10 other than the stored one, and none is issued
\* when the buffer spells the stored rating.
C37_BufferWithinTen ==
    /\ [](command.kind = "EditRating"
            => /\ command.coll.rating \in 0 .. 10
               /\ command.text \in RatingForms \cup {<<>>})
    /\ [][(Reduces(Key("\n")) /\ command.kind = "EditRating")
            => /\ RatingUpdates(handled'.calls)
               /\ command.text = to_string(command.coll.rating) => handled'.calls = <<>>]_vars

\* Enter on the buffer "10" in the editor opened on a stored rating of 0 has
\* issued an update with the rating 10
C37_Witness ==
    /\ handled.ev = Key("\n") /\ handled.mode = "EditRating"
    /\ Len(handled.calls) = 1
    /\ handled.calls[1].arg.original.v[1].rating = 10
    /\ collection_detail[1] = Fetched(Rated[1])



(***************************************************************************)
(* The notifier at the end of a background task.                           *)
(***************************************************************************)

\* the closures a spawned future ends with: map on success, map_err on error
Succeeded ==
    {"collection_done", "progress_done", "collection_detail_done",
     "update_collection_detail_done", "subject_done", "search_done"}
Failed == {"task_failed"}

\* the step is the end of a background task
Completes(ops) == rt' # rt /\ ~last'.spawned /\ last'.op \in ops

\* C38: every background task that completes, with success or with an error,
\* sends on the notifier, so that the render loop wakes and shows the message
\* the completion pushed without a key or a resize.
C38_CompletionNotifies ==
    [][Completes(Succeeded \cup Failed) => last'.notified]_vars

\* What holds: the tasks that complete with success.
C38_SuccessNotifies ==
    [][Completes(Succeeded) => last'.notified]_vars

\* a request has failed: its message is in the log and nothing was sent on the
\* notifier
C38_SilentFailure ==
    /\ last.op = "task_failed"
    /\ last.pushed = "request failed"
    /\ ~last.notified



(***************************************************************************)
(* ScrollState::delta on the offsets the user interface reaches.           *)
(***************************************************************************)

\* max(0, s + d)
FromZero(s, d) == IF s + d < 0 THEN 0 ELSE s + d

\* the row a key moves a Subject tab by
RowsOf(c) == IF c = "j" THEN 1 ELSE -1

\* C39: ScrollState::delta(d) leaves the offset max(0, offset + d) from every
\* offset the user interface reaches, the 65535 - 1000 that G stores included:
\* j and k on a Subject tab move the offset by one row, k not below 0.
C39_DeltaFromZero ==
    [][\A c \in {"j", "k"} :
          (Reduces(Key(c)) /\ command = Absent /\ is_subject)
              => tabs'[tab' + 1].scroll = FromZero(active_tab.scroll, RowsOf(c))]_vars

\* What holds: from the offsets below 2^15.
C39_DeltaFromZeroBelowI16 ==
    [][\A c \in {"j", "k"} :
          (Reduces(Key(c)) /\ command = Absent /\ is_subject /\ active_tab.scroll < I16)
              => tabs'[tab' + 1].scroll = FromZero(active_tab.scroll, RowsOf(c))]_vars

\* j on a Subject tab whose subject is loading has left the offset 0: it has
\* taken it there from where G left it, since from an offset s below 2^15 it
\* leaves s + 1
C39_JumpsToZero ==
    /\ pc = "check"
    /\ handled.ev = Key("j") /\ handled.by = "normal" /\ handled.mode = "Absent"
    /\ Len(tabs) > 0 /\ is_subject
    /\ active_tab.scroll = 0
    /\ subject[active_tab.id].tag # "Fetched"

\* the same of the method alone: delta(1) and delta(-1) from the offsets set
\* can be given
C39_DeltaAlone ==
    [][(last'.op = "delta" /\ scroll' # scroll /\ ~panicked')
          => scroll' \in {FromZero(scroll, 1), FromZero(scroll, -1)}]_vars



(***************************************************************************)
(* The status editor.                                                      *)
(***************************************************************************)

\* the five statuses in the order Tab goes through them
StatusCycle == <<"Wished", "Doing", "Done", "OnHold", "Dropped">>

\* the status after st on the cycle
Following(st) ==
    LET i == CHOOSE k \in 1 .. Len(StatusCycle) : StatusCycle[k] = st
    IN  StatusCycle[(i % Len(StatusCycle)) + 1]

\* the keys of the model that are neither Tab nor Enter (Esc is taken by the
\* long command layer before the editor sees it)
OtherKeys == {"j", "s", "Backspace", "Ctrl-q"}

\* C40: in the status editor a Tab key moves the staged status one step along
\* one cycle through all five statuses, so that five Tabs come back to where
\* they began; Enter issues one update_collection_detail with the staged
\* status and the detail the editor was opened on and closes the editor; any
\* other key closes the editor and issues nothing.
C40_StatusEditor ==
    /\ [](command.kind = "EditStatus" => command.status \in Statuses)
    /\ [][(Reduces(Key("\t")) /\ command.kind = "EditStatus")
            => /\ command' = [command EXCEPT !.status = Following(command.status)]
               /\ handled'.calls = <<>>]_vars
    /\ [][(Reduces(Key("\n")) /\ command.kind = "EditStatus")
            => /\ command' = Absent
               /\ handled'.calls =
                      <<Call("update_collection_detail",
                             [id |-> command.id, status |-> command.status,
                              original |-> command.coll])>>]_vars
    /\ [][\A c \in OtherKeys :
            (Reduces(Key(c)) /\ command.kind = "EditStatus")
                => (command' = Absent /\ handled'.calls = <<>>)]_vars

\* Enter after two Tabs in the editor opened on a detail with the status
\* Dropped: the update carries Doing and the detail as it was
C40_Witness ==
    /\ handled.ev = Key("\n") /\ handled.mode = "EditStatus"
    /\ Len(handled.calls) = 1
    /\ handled.calls[1].arg.status = "Doing"
    /\ handled.calls[1].arg.original = Some(CollectionDetail(7, "Dropped"))

\* Enter in the editor opened on a subject that is not in the collection: the
\* update carries the default status and no detail
C40_NoDetail ==
    /\ handled.ev = Key("\n") /\ handled.mode = "EditStatus"
    /\ Len(handled.calls) = 1
    /\ handled.calls[1].arg.status = CollectionStatus_default
    /\ handled.calls[1].arg.original = None


====
